---- MODULE Spec2Model ----
(***************************************************************************)
(* Supabase compliance checker: the three check evaluators (checkMFA,      *)
(* checkRLS, checkPITR), the Management API gateway (callManagementApi)    *)
(* and the ComplianceChecker component (credentials, results, evidence,    *)
(* handleRunChecks, clearEvidence).                                        *)
(*                                                                         *)
(* JavaScript values are modelled as tagged records so that values of      *)
(* different JavaScript types can be compared: null is [tag |-> "null"],   *)
(* an array is [array |-> <<...>>], a thrown Error is a record with tag    *)
(* "Error".  A string the code inspects character by character (a tier, a  *)
(* URL, a key) is a tuple of its pieces; a string that is only built and   *)
(* passed on is a TLA+ string.                                             *)
(***************************************************************************)
EXTENDS Integers, Sequences, FiniteSets, TLC

VARIABLES
    credentials,   \* useState<SupabaseCredentials>: url, serviceRoleKey, managementApiKey
    loading,       \* useState(false)
    error,         \* useState('')
    results,       \* useState<Results>: mfa, rls, pitr
    evidence,      \* useState<EvidenceEntry[]>
    mfa,           \* the checkMFA invocation: its promise and the response it got
    rls,           \* the checkRLS invocation
    pitr,          \* the checkPITR invocation: promise, position, locals
    apiCalls,      \* remote operations issued by the invocations in flight
    clock,         \* wall clock read by new Date()
    runs,          \* number of runs launched so far
    download       \* the file the Evidence Log last handed to the browser

vars == <<credentials, loading, error, results, evidence, mfa, rls, pitr,
          apiCalls, clock, runs, download>>

(***************************************************************************)
(* Bounds of the model.                                                    *)
(***************************************************************************)
MaxUsers == 3      \* longest user list listUsers returns
MaxTables == 2     \* longest table list get_tables_info returns
MaxRuns == 2       \* runs launched through the Run Checks button

(***************************************************************************)
(* JavaScript values.                                                      *)
(***************************************************************************)
Null == [tag |-> "null"]

MkError(name, message) ==
    [tag |-> "Error", name |-> name, message |-> message,
     stack |-> name \o ": " \o message]

\* A thrown value that is not an Error object.
MkThrownString(s) == [tag |-> "string", value |-> s]

InstanceOfError(e) == e.tag = "Error"

\* String(error) for the non-Error values of the model.
StringOf(e) == e.value

safeJsonValue(e) ==
    IF InstanceOfError(e)
    THEN [message |-> e.message, name |-> e.name, stack |-> e.stack]
    ELSE [string |-> StringOf(e)]

\* Sequences over S of length 0..n.
SeqsUpTo(S, n) == UNION {[1..k -> S] : k \in 0..n}

\* { ...a, ...b }: the keys of b override those of a.
Spread(a, b) ==
    [k \in (DOMAIN a) \cup (DOMAIN b) |-> IF k \in DOMAIN b THEN b[k] ELSE a[k]]

(***************************************************************************)
(* checkMFA.                                                               *)
(***************************************************************************)
\* User records as auth.admin.listUsers returns them; factors is optional.
UserPool ==
    { [email |-> "a@x.io", factors |-> <<"totp">>],
      [email |-> "b@x.io", factors |-> <<>>],
      [email |-> "c@x.io"],
      [email |-> "d@x.io", factors |-> <<"totp", "phone">>] }

\* A faulty variant of mfaEnabled: a user without a factors field counts as
\* enrolled.
mfaEnabled_missingCounts(user) ==
    IF "factors" \in DOMAIN user THEN Len(user.factors) # 0 ELSE TRUE

\* Boolean(user.factors?.length): undefined and 0 are falsy.
mfaEnabled(user) ==
    IF "factors" \in DOMAIN user THEN Len(user.factors) # 0 ELSE FALSE

UserMFAStatus(user) == [email |-> user.email, mfaEnabled |-> mfaEnabled(user)]

IsEnabledStatus(s) == s.mfaEnabled

\* The catch block of checkMFA.
checkMFA_catch(e) ==
    [status |-> "error",
     message |-> "Failed to check MFA status: "
                 \o (IF InstanceOfError(e) THEN e.message ELSE "Unknown error"),
     details |-> safeJsonValue(e)]

\* The body of the try block once listUsers has resolved with a user list.
checkMFA_users(users) ==
    LET userMFAStatus == [i \in 1..Len(users) |-> UserMFAStatus(users[i])]
        allEnabled == \A i \in 1..Len(userMFAStatus) : IsEnabledStatus(userMFAStatus[i])
        enabledCount == Len(SelectSeq(userMFAStatus, IsEnabledStatus))
    IN  [status |-> IF allEnabled THEN "pass" ELSE "fail",
         details |-> [array |-> userMFAStatus],
         message |-> IF allEnabled
                     THEN "MFA is enabled for all "
                          \o ToString(Len(userMFAStatus)) \o " users"
                     ELSE "MFA is enabled for " \o ToString(enabledCount)
                          \o " out of " \o ToString(Len(userMFAStatus))
                          \o " users"]

\* What listUsers can do: resolve with {data: {users}, error: null}, resolve
\* with an error value, resolve with data null, or throw.
ListUsersOk(users) ==
    [tag |-> "resolved", data |-> [users |-> users], error |-> Null]
ListUsersError(e) ==
    [tag |-> "resolved", data |-> [users |-> <<>>], error |-> e]
ListUsersNoData == [tag |-> "resolved", data |-> Null, error |-> Null]
Thrown(e) == [tag |-> "thrown", error |-> e]

AuthError == MkError("AuthApiError", "User not allowed")
FetchError == MkError("TypeError", "Failed to fetch")
DestructureError ==
    MkError("TypeError", "Cannot destructure property 'users' of 'data' as it is null.")

\* A faulty variant of checkMFA: the error value of the response is not
\* looked at.
checkMFA_ignoresError(resp) ==
    IF resp.tag = "thrown" THEN checkMFA_catch(resp.error)
    ELSE IF resp.data = Null THEN checkMFA_catch(DestructureError)
    ELSE checkMFA_users(resp.data.users)
checkMFA(resp) ==
    IF resp.tag = "thrown" THEN checkMFA_catch(resp.error)
    ELSE IF resp.data = Null THEN checkMFA_catch(DestructureError)
    ELSE IF resp.error # Null THEN checkMFA_catch(resp.error)
    ELSE checkMFA_users(resp.data.users)

ListUsersFailures ==
    { ListUsersError(AuthError), ListUsersNoData, Thrown(FetchError),
      Thrown(MkThrownString("offline")) }

ListUsersResponses(n) ==
    {ListUsersOk(us) : us \in SeqsUpTo(UserPool, n)} \cup ListUsersFailures

(***************************************************************************)
(* checkRLS.                                                               *)
(***************************************************************************)
\* Rows of get_tables_info; rls_enabled may be missing from a row.
TablePool ==
    { [table_name |-> "t1", rls_enabled |-> TRUE, schema |-> "public"],
      [table_name |-> "t2", rls_enabled |-> FALSE, schema |-> "public"],
      [table_name |-> "t3", schema |-> "public"] }

\* A faulty variant of rlsEnabled: a row without an rls_enabled field counts
\* as protected.
rlsEnabled_missingCounts(table) ==
    IF "rls_enabled" \in DOMAIN table THEN table.rls_enabled ELSE TRUE
\* table.rls_enabled as a condition: undefined is falsy.
rlsEnabled(table) ==
    IF "rls_enabled" \in DOMAIN table THEN table.rls_enabled ELSE FALSE

PostgrestError == MkError("PostgrestError", "function get_tables_info does not exist")
NotAFunctionError == MkError("TypeError", "tableData.every is not a function")

\* data of the rpc response: null, an array of rows, or a non-array object.
RpcArray(rows) == [array |-> rows]
RpcObject == [object |-> "scalar"]
RpcResolved(data, err) == [tag |-> "resolved", data |-> data, error |-> err]

\* A faulty variant of checkRLS_noData: with nothing to inspect the check is
\* left pending.
checkRLS_noData_asPending ==
    [status |-> "pending",
     message |-> "No public tables found or RLS configuration not needed yet.",
     details |-> [array |-> <<>>]]
\* A faulty variant of checkRLS_noData: the absent introspection result is
\* reported as an error.
checkRLS_noData_asError ==
    [status |-> "error",
     message |-> "No public tables found or RLS configuration not needed yet.",
     details |-> [array |-> <<>>]]

checkRLS_noData ==
    [status |-> "pass",
     message |-> "No public tables found or RLS configuration not needed yet.",
     details |-> [array |-> <<>>]]

checkRLS_catch(e) ==
    LET errorMessage == IF InstanceOfError(e) THEN e.message ELSE "Unknown error"
    IN  [status |-> "error",
         message |-> "Failed to check RLS: " \o errorMessage,
         details |-> [error |-> errorMessage]]

checkRLS_tables(data) ==
    LET tableData == data.array
        allEnabled == \A i \in 1..Len(tableData) : rlsEnabled(tableData[i])
        enabledCount == Len(SelectSeq(tableData, rlsEnabled))
    IN  [status |-> IF allEnabled THEN "pass" ELSE "fail",
         details |-> data,
         message |-> IF allEnabled
                     THEN "RLS is enabled on all "
                          \o ToString(Len(tableData)) \o " tables"
                     ELSE "RLS is enabled on " \o ToString(enabledCount)
                          \o " out of " \o ToString(Len(tableData))
                          \o " tables"]

\* if (error || !data): null is the only falsy data of the model.
checkRLS_shortCircuit(resp) == resp.error # Null \/ resp.data = Null

checkRLS(resp) ==
    IF resp.tag = "thrown" THEN checkRLS_catch(resp.error)
    ELSE IF checkRLS_shortCircuit(resp) THEN checkRLS_noData
    ELSE IF "array" \in DOMAIN resp.data THEN checkRLS_tables(resp.data)
    ELSE checkRLS_catch(NotAFunctionError)

RpcResponses(n) ==
    {RpcResolved(RpcArray(rows), Null) : rows \in SeqsUpTo(TablePool, n)}
    \cup {RpcResolved(RpcArray(rows), PostgrestError) : rows \in SeqsUpTo(TablePool, 1)}
    \cup { RpcResolved(Null, PostgrestError), RpcResolved(Null, Null),
           RpcResolved(RpcObject, Null), Thrown(FetchError),
           Thrown(MkThrownString("offline")) }

(***************************************************************************)
(* Strings the code inspects.  A URL or key is the tuple of its pieces;    *)
(* every piece other than "." is free of dots.                             *)
(***************************************************************************)
\* s.includes(t): t occurs in s as a contiguous run.
Includes(s, t) ==
    \E i \in 0..(Len(s) - Len(t)) : \A k \in 1..Len(t) : s[i + k] = t[k]

\* s.startsWith(piece) for a prefix that is one piece of the model.
StartsWith(s, piece) == Len(s) > 0 /\ s[1] = piece

\* Where /https:\/\/([^.]+)\.supabase\.co/ matches when the match starts at
\* piece i: the group runs to the first dot after "https://" and must be
\* non-empty, and ".supabase.co" must follow it.
FirstDotAfter(url, i) ==
    IF \E j \in (i + 1)..Len(url) : url[j] = "."
    THEN CHOOSE j \in (i + 1)..Len(url) :
            url[j] = "." /\ \A k \in (i + 1)..(j - 1) : url[k] # "."
    ELSE 0

MatchesAt(url, i) ==
    LET j == FirstDotAfter(url, i)
    IN  /\ url[i] = "https://"
        /\ j > i + 1
        /\ j + 3 <= Len(url)
        /\ url[j + 1] = "supabase"
        /\ url[j + 2] = "."
        /\ url[j + 3] = "co"

\* url.match(...): the leftmost match; match[1] is the group.
extractProjectRef(url) ==
    IF \E i \in 1..Len(url) : MatchesAt(url, i)
    THEN LET i == CHOOSE i \in 1..Len(url) :
                     MatchesAt(url, i) /\ \A k \in 1..(i - 1) : ~MatchesAt(url, k)
         IN  [match |-> SubSeq(url, i + 1, FirstDotAfter(url, i) - 1)]
    ELSE Null

\* String.prototype.toLowerCase on the letters of the model.
UpperToLower ==
    [c \in {"F", "R", "E", "P", "O"} |->
        CASE c = "F" -> "f" [] c = "R" -> "r" [] c = "E" -> "e"
          [] c = "P" -> "p" [] c = "O" -> "o"]

toLowerCase(s) ==
    [i \in 1..Len(s) |-> IF s[i] \in DOMAIN UpperToLower THEN UpperToLower[s[i]] ELSE s[i]]

FreeTier == <<"f", "r", "e", "e">>

(***************************************************************************)
(* callManagementApi (lib/utils): the Remote Call Gateway.                 *)
(***************************************************************************)
\* What fetch can do: resolve with a response or reject (transport fault).
\* A body has its text, its parsed JSON ([json |-> v]) when the text is JSON,
\* or both.
HttpResponse(status, statusText, body) ==
    [tag |-> "response", status |-> status, statusText |-> statusText, body |-> body]
HttpFault(e) == [tag |-> "fault", error |-> e]

\* A faulty variant of ResponseOk: only server errors count as failures.
ResponseOk_belowServerError(status) == status >= 200 /\ status <= 499

\* response.ok
ResponseOk(status) == status >= 200 /\ status <= 299

MissingKeyError ==
    MkError("Error", "Missing required Supabase credential: managementApiKey")
JsonSyntaxError == MkError("SyntaxError", "Unexpected token < in JSON at position 0")

\* The catch block of callManagementApi rethrows every failure of the try
\* block under one prefix.
GatewayRethrow(e) ==
    MkError("Error", "Error during Management API call: " \o e.message)

GatewayStatusError(resp) ==
    MkError("Error", "Management API call failed: " \o ToString(resp.status)
                     \o " " \o resp.statusText \o ". Details: " \o resp.body.text)

\* The gateway's result once fetch has settled: [value |-> json] or a throw.
\* response.json() is returned un-awaited, so its rejection passes the catch
\* block by.
callManagementApi(outcome) ==
    IF outcome.tag = "fault" THEN Thrown(GatewayRethrow(outcome.error))
    ELSE IF ~ResponseOk(outcome.status)
         THEN Thrown(GatewayRethrow(GatewayStatusError(outcome)))
    ELSE IF "json" \in DOMAIN outcome.body
         THEN [tag |-> "value", value |-> outcome.body.json]
    ELSE Thrown(JsonSyntaxError)

\* callManagementApi of lib/supabase: the same call without a catch block, so
\* every failure reaches the caller as it was thrown.
LibStatusError(resp) ==
    MkError("Error", "API call failed: " \o ToString(resp.status)
                     \o " " \o resp.statusText \o ". " \o resp.body.text)

LibCallManagementApi(outcome) ==
    IF outcome.tag = "fault" THEN Thrown(outcome.error)
    ELSE IF ~ResponseOk(outcome.status) THEN Thrown(LibStatusError(outcome))
    ELSE IF "json" \in DOMAIN outcome.body
         THEN [tag |-> "value", value |-> outcome.body.json]
    ELSE Thrown(JsonSyntaxError)

(***************************************************************************)
(* checkPITR.                                                              *)
(***************************************************************************)
SubscriptionEndpoint(projectRef) == [project |-> projectRef, path |-> "subscription"]
BackupsEndpoint(projectRef) == [project |-> projectRef, path |-> "database/backups/info"]

checkPITR_invalidUrl(url) ==
    [status |-> "error",
     message |-> "Invalid Supabase URL. Unable to extract project reference.",
     details |-> [url |-> url]]

checkPITR_freeTier ==
    [status |-> "fail",
     message |-> "Point in Time Recovery (PITR) is not available on the free tier. Upgrade to Pro plan or higher to enable this feature.",
     details |-> [currentTier |-> "free",
                  recommendation |-> "Upgrade to Pro plan or higher",
                  learnMore |-> "https://supabase.com/pricing"]]

\* A faulty variant of pitrEnabled: only an explicit false disables.
pitrEnabled_unlessFalse(backupInfo) ==
    IF "pitr_enabled" \in DOMAIN backupInfo THEN backupInfo.pitr_enabled ELSE TRUE

\* backupInfo.pitr_enabled as a condition: undefined is falsy.
pitrEnabled(backupInfo) ==
    IF "pitr_enabled" \in DOMAIN backupInfo THEN backupInfo.pitr_enabled ELSE FALSE

checkPITR_backup(backupInfo, subscription) ==
    [status |-> IF pitrEnabled(backupInfo) THEN "pass" ELSE "fail",
     message |-> IF pitrEnabled(backupInfo)
                 THEN "Point in Time Recovery is enabled"
                 ELSE "Point in Time Recovery is available but not enabled. You can enable it in your project settings.",
     details |-> Spread(backupInfo,
                        [tier |-> subscription.tier,
                         configuration |-> IF pitrEnabled(backupInfo)
                                           THEN "enabled" ELSE "disabled"])]

\* A faulty variant of checkPITR_notConfigured: the failed backups-info call
\* is reported as an evaluator error.
checkPITR_notConfigured_asError(subscription, e) ==
    [status |-> "error",
     message |-> "Failed to check PITR status. Please verify your credentials and try again.",
     details |-> [tier |-> subscription.tier,
                  error |-> IF InstanceOfError(e) THEN e.message ELSE StringOf(e)]]

checkPITR_notConfigured(subscription, e) ==
    [status |-> "fail",
     message |-> "Point in Time Recovery is available but not configured. You can enable it in your project settings.",
     details |-> [tier |-> subscription.tier,
                  recommendation |-> "Configure PITR in project settings",
                  error |-> IF InstanceOfError(e) THEN e.message ELSE StringOf(e)]]

\* A faulty variant of checkPITR_catch: the outer catch block rethrows.
checkPITR_catch_rethrows(e) == Thrown(e)

checkPITR_catch(e) ==
    [status |-> "error",
     message |-> "Failed to check PITR status. Please verify your credentials and try again.",
     details |-> safeJsonValue(e)]

NoTierError ==
    MkError("TypeError", "Cannot read properties of undefined (reading 'toLowerCase')")
NullSubscriptionError ==
    MkError("TypeError", "Cannot read properties of null (reading 'tier')")
NullBackupError ==
    MkError("TypeError", "Cannot read properties of null (reading 'pitr_enabled')")
NotAStringError ==
    MkError("TypeError", "subscription.tier.toLowerCase is not a function")

\* A JSON object names in nonStrings those of its members whose value is
\* not a string (a number, a boolean, an object).
IsStringMember(object, key) ==
    key \in DOMAIN object
    /\ ("nonStrings" \in DOMAIN object => key \notin object.nonStrings)

\* subscription.tier.toLowerCase() === 'free'; the read throws when the
\* response is null, has no tier, or has a tier that is not a string.
HasTier(subscription) == subscription # Null /\ IsStringMember(subscription, "tier")

\* What line 155 throws when the tier cannot be read as a string.
TierReadError(subscription) ==
    IF subscription = Null THEN NullSubscriptionError
    ELSE IF "tier" \notin DOMAIN subscription THEN NoTierError
    ELSE NotAStringError
\* A faulty variant of IsFreeTier: the comparison is case-sensitive.
IsFreeTier_caseSensitive(subscription) == subscription.tier = FreeTier
IsFreeTier(subscription) == toLowerCase(subscription.tier) = FreeTier

(***************************************************************************)
(* Promises and the state of an evaluator invocation.                      *)
(***************************************************************************)
NoPromise == [state |-> "none"]
Pending == [state |-> "pending"]
Fulfilled(v) == [state |-> "fulfilled", value |-> v]
Rejected(e) == [state |-> "rejected", reason |-> e]
Settled(p) == p.state \in {"fulfilled", "rejected"}

\* The promise of an async function once its body has run to the end: a
\* returned value fulfils it, a value thrown out of the body rejects it.
AsyncResult(r) ==
    IF "tag" \in DOMAIN r /\ r.tag = "thrown" THEN Rejected(r.error) ELSE Fulfilled(r)

NoResp == [tag |-> "none"]
Undefined == [tag |-> "undefined"]

EmptyCredentials == [url |-> <<>>, serviceRoleKey |-> <<>>, managementApiKey |-> <<>>]

\* An evaluator with a single remote operation (checkMFA, checkRLS).
IdleCheck == [promise |-> NoPromise, resp |-> NoResp]
CalledCheck == [promise |-> Pending, resp |-> NoResp]

\* checkPITR: pc is the await it is suspended at.
IdlePitr ==
    [promise |-> NoPromise, pc |-> "idle", credentials |-> EmptyCredentials,
     projectRef |-> <<>>, subscription |-> Null,
     subResp |-> NoResp, backResp |-> NoResp]

\* Remote operations as logged in apiCalls.
ListUsersCall(client) ==
    [op |-> "listUsers", url |-> client.url, key |-> client.serviceRoleKey]
RpcCall(client) ==
    [op |-> "rpc", url |-> client.url, key |-> client.serviceRoleKey]
\* sent is FALSE when the gateway throws before it calls fetch.
GatewayCall(endpoint, creds, sent) ==
    [op |-> "GET", endpoint |-> endpoint, key |-> creds.managementApiKey, sent |-> sent]

\* checkPITR leaves its body with result.
PitrReturn(p, result) == [p EXCEPT !.promise = AsyncResult(result), !.pc = "done"]

\* A step of checkPITR: its next state and the gateway calls it issued.
PitrStep(p, calls) == [pitr |-> p, calls |-> calls]

\* A faulty variant of checkPITR_subscriptionFailed: the failure falls through
\* to the outer catch.
checkPITR_subscriptionFailed_asError(e) == checkPITR_catch(e)

\* The first gateway call failed (inner catch of the subscription call).
checkPITR_subscriptionFailed(e) == checkPITR_freeTier

\* await callManagementApi(`projects/${projectRef}/subscription`, credentials)
checkPITR_callSubscription(creds, projectRef) ==
    LET p == [IdlePitr EXCEPT !.promise = Pending, !.credentials = creds,
                              !.projectRef = projectRef]
    IN  IF creds.managementApiKey = <<>>
        THEN PitrStep(PitrReturn(p, checkPITR_subscriptionFailed(MissingKeyError)),
                      <<GatewayCall(SubscriptionEndpoint(projectRef), creds, FALSE)>>)
        ELSE PitrStep([p EXCEPT !.pc = "subscription"],
                      <<GatewayCall(SubscriptionEndpoint(projectRef), creds, TRUE)>>)

\* A faulty variant of checkPITR_unresolved: the details are the credential
\* bundle itself instead of its url.
checkPITR_unresolved_wholeBundle(creds) ==
    PitrStep(PitrReturn([IdlePitr EXCEPT !.promise = Pending, !.credentials = creds],
                        [checkPITR_invalidUrl(creds.url) EXCEPT !.details = creds]),
             <<>>)
\* A faulty variant of checkPITR_unresolved: the guard is missing and the
\* subscription call goes out with an empty project reference.
checkPITR_unresolved_noGuard(creds) == checkPITR_callSubscription(creds, <<>>)

\* if (!projectRef) return {status: 'error', ...}
checkPITR_unresolved(creds) ==
    PitrStep(PitrReturn([IdlePitr EXCEPT !.promise = Pending, !.credentials = creds],
                        checkPITR_invalidUrl(creds.url)),
             <<>>)

\* checkPITR up to its first await.
checkPITR_start(creds) ==
    LET m == extractProjectRef(creds.url)
    IN  IF m = Null THEN checkPITR_unresolved(creds)
        ELSE checkPITR_callSubscription(creds, m.match)

\* A faulty variant of checkPITR_callBackups: the second call reads the
\* credentials the page holds at that moment instead of its own argument.
checkPITR_callBackups_liveCredentials(p, subscription) ==
    PitrStep([p EXCEPT !.pc = "backups", !.subscription = subscription],
             <<GatewayCall(BackupsEndpoint(p.projectRef), credentials, TRUE)>>)
\* await callManagementApi(`projects/${projectRef}/database/backups/info`, ...)
checkPITR_callBackups(p, subscription) ==
    PitrStep([p EXCEPT !.pc = "backups", !.subscription = subscription],
             <<GatewayCall(BackupsEndpoint(p.projectRef), p.credentials, TRUE)>>)

\* A faulty variant of checkPITR_onSubscription: the tier is read with
\* optional chaining (subscription.tier?.toLowerCase()), so a response
\* without a tier counts as a paid plan.
checkPITR_onSubscription_optionalTier(p0, outcome) ==
    LET p == [p0 EXCEPT !.subResp = outcome]
        r == callManagementApi(outcome)
    IN  IF r.tag = "thrown"
        THEN PitrStep(PitrReturn(p, checkPITR_subscriptionFailed(r.error)), <<>>)
        ELSE IF r.value = Null \/ ("tier" \in DOMAIN r.value /\ ~HasTier(r.value))
        THEN PitrStep(PitrReturn(p, checkPITR_catch(TierReadError(r.value))), <<>>)
        ELSE IF "tier" \notin DOMAIN r.value
        THEN checkPITR_callBackups(p, Spread(r.value, [tier |-> <<"undefined">>]))
        ELSE IF IsFreeTier(r.value)
        THEN PitrStep(PitrReturn(p, checkPITR_freeTier), <<>>)
        ELSE checkPITR_callBackups(p, r.value)
\* checkPITR from the settling of the subscription call to its next await.
checkPITR_onSubscription(p0, outcome) ==
    LET p == [p0 EXCEPT !.subResp = outcome]
        r == callManagementApi(outcome)
    IN  IF r.tag = "thrown"
        THEN PitrStep(PitrReturn(p, checkPITR_subscriptionFailed(r.error)), <<>>)
        ELSE IF ~HasTier(r.value)
        THEN PitrStep(PitrReturn(p, checkPITR_catch(TierReadError(r.value))), <<>>)
        ELSE IF IsFreeTier(r.value)
        THEN PitrStep(PitrReturn(p, checkPITR_freeTier), <<>>)
        ELSE checkPITR_callBackups(p, r.value)

\* A faulty variant of checkPITR_onBackups: a failed backups-info call is
\* tried once more.
checkPITR_onBackups_retries(p0, outcome) ==
    LET p == [p0 EXCEPT !.backResp = outcome]
        r == callManagementApi(outcome)
    IN  IF r.tag = "thrown" /\ p0.backResp = NoResp
        THEN PitrStep(p, <<GatewayCall(BackupsEndpoint(p.projectRef), p.credentials, TRUE)>>)
        ELSE IF r.tag = "thrown"
        THEN PitrStep(PitrReturn(p, checkPITR_notConfigured(p.subscription, r.error)), <<>>)
        ELSE IF r.value = Null
        THEN PitrStep(PitrReturn(p, checkPITR_notConfigured(p.subscription, NullBackupError)), <<>>)
        ELSE PitrStep(PitrReturn(p, checkPITR_backup(r.value, p.subscription)), <<>>)
\* checkPITR from the settling of the backups-info call to its return.
checkPITR_onBackups(p0, outcome) ==
    LET p == [p0 EXCEPT !.backResp = outcome]
        r == callManagementApi(outcome)
    IN  IF r.tag = "thrown"
        THEN PitrStep(PitrReturn(p, checkPITR_notConfigured(p.subscription, r.error)), <<>>)
        ELSE IF r.value = Null
        THEN PitrStep(PitrReturn(p, checkPITR_notConfigured(p.subscription, NullBackupError)), <<>>)
        ELSE PitrStep(PitrReturn(p, checkPITR_backup(r.value, p.subscription)), <<>>)

(***************************************************************************)
(* ComplianceChecker: the state of the component and handleRunChecks.      *)
(***************************************************************************)
PendingResult == [status |-> "pending"]

InitialResults == [mfa |-> PendingResult, rls |-> PendingResult, pitr |-> PendingResult]

\* A faulty variant of RunButtonEnabled: the button stays enabled while a
\* run is in flight.
RunButtonEnabled_ignoresLoading ==
    /\ credentials.url # <<>>
    /\ credentials.serviceRoleKey # <<>>
    /\ credentials.managementApiKey # <<>>
\* disabled={loading || !url || !serviceRoleKey || !managementApiKey}
RunButtonEnabled ==
    /\ ~loading
    /\ credentials.url # <<>>
    /\ credentials.serviceRoleKey # <<>>
    /\ credentials.managementApiKey # <<>>

\* A faulty variant of validateCredentials: the url is only searched for
\* "supabase.co", the project reference is not extracted.
validateCredentials_includesOnly(c) ==
    IF ~Includes(c.url, <<"supabase", ".", "co">>)
    THEN [valid |-> FALSE,
          error |-> "Invalid Project URL. Must be a Supabase URL (e.g., https://project.supabase.co)"]
    ELSE IF ~StartsWith(c.serviceRoleKey, "eyJ")
    THEN [valid |-> FALSE, error |-> "Invalid Service Role Key. Must start with \"eyJ\""]
    ELSE IF ~StartsWith(c.managementApiKey, "sbp_")
    THEN [valid |-> FALSE, error |-> "Invalid Management API Key. Must start with \"sbp_\""]
    ELSE [valid |-> TRUE, error |-> ""]
\* A faulty variant of validateCredentials: the two keys are not looked at.
validateCredentials_urlOnly(c) ==
    IF ~Includes(c.url, <<"supabase", ".", "co">>) \/ extractProjectRef(c.url) = Null
    THEN [valid |-> FALSE,
          error |-> "Invalid Project URL. Must be a Supabase URL (e.g., https://project.supabase.co)"]
    ELSE [valid |-> TRUE, error |-> ""]
\* validateCredentials: whether the run may go on, and the error it sets.
validateCredentials(c) ==
    IF ~Includes(c.url, <<"supabase", ".", "co">>) \/ extractProjectRef(c.url) = Null
    THEN [valid |-> FALSE,
          error |-> "Invalid Project URL. Must be a Supabase URL (e.g., https://project.supabase.co)"]
    ELSE IF ~StartsWith(c.serviceRoleKey, "eyJ")
    THEN [valid |-> FALSE, error |-> "Invalid Service Role Key. Must start with \"eyJ\""]
    ELSE IF ~StartsWith(c.managementApiKey, "sbp_")
    THEN [valid |-> FALSE, error |-> "Invalid Management API Key. Must start with \"sbp_\""]
    ELSE [valid |-> TRUE, error |-> ""]

\* createSupabaseClient throws on a missing url or key; the SDK's createClient
\* may also reject a url that is not an http(s) URL.
ClientError == MkError("Error", "Invalid supabaseUrl: Must be a valid HTTP or HTTPS URL.")
MissingClientCredentials ==
    MkError("Error", "Missing required client credentials: url or serviceRoleKey")

createSupabaseClientOutcomes(c) ==
    IF c.url = <<>> \/ c.serviceRoleKey = <<>> THEN {Thrown(MissingClientCredentials)}
    ELSE {[tag |-> "value", value |-> [url |-> c.url, serviceRoleKey |-> c.serviceRoleKey]]}
         \cup (IF c.url[1] \in {"https://", "http://"} THEN {} ELSE {Thrown(ClientError)})

\* A faulty variant of CatchToError: the rejection is reported as a failed
\* check.
CatchToError_asFail(prefix, p) ==
    CASE p.state = "rejected" ->
             [status |-> "fail", message |-> prefix \o p.reason.message,
              details |-> Undefined]
      [] p.state = "fulfilled" -> p.value
      [] OTHER -> [status |-> "pending"]

\* checkX(...).catch(e => ({status: 'error', message: `X Check Error: ...`,
\* details: e.details})) once the evaluator's promise has settled.  A promise
\* that has not settled has no value.
CatchToError(prefix, p) ==
    CASE p.state = "rejected" ->
             [status |-> "error", message |-> prefix \o p.reason.message,
              details |-> Undefined]
      [] p.state = "fulfilled" -> p.value
      [] OTHER -> PendingResult

\* result.message || ''
MessageOrEmpty(r) == IF "message" \in DOMAIN r THEN r.message ELSE ""

\* A faulty variant of EvidenceEntry: the details of an entry repeat the
\* status instead of the message.
EvidenceEntry_detailsFromStatus(timestamp, check, r) ==
    [timestamp |-> timestamp, check |-> check, status |-> r.status,
     details |-> r.status]
EvidenceEntry(timestamp, check, r) ==
    [timestamp |-> timestamp, check |-> check, status |-> r.status,
     details |-> MessageOrEmpty(r)]

\* new Date().toISOString()
toISOString(t) == "T" \o ToString(t)

\* A faulty variant of AppendEvidence: every entry reads the clock itself,
\* and the clock has moved on between the reads.
AppendEvidence_clockPerEntry(prev, timestamp, r) ==
    prev \o << EvidenceEntry(timestamp, "MFA", r.mfa),
               EvidenceEntry(timestamp \o "+1ms", "RLS", r.rls),
               EvidenceEntry(timestamp \o "+2ms", "PITR", r.pitr) >>

\* A faulty variant of AppendEvidence: the new entries go in front.
AppendEvidence_newestFirst(prev, timestamp, r) ==
    << EvidenceEntry(timestamp, "MFA", r.mfa),
       EvidenceEntry(timestamp, "RLS", r.rls),
       EvidenceEntry(timestamp, "PITR", r.pitr) >> \o prev

\* setEvidence(prev => [...prev, MFA, RLS, PITR])
AppendEvidence(prev, timestamp, r) ==
    prev \o << EvidenceEntry(timestamp, "MFA", r.mfa),
               EvidenceEntry(timestamp, "RLS", r.rls),
               EvidenceEntry(timestamp, "PITR", r.pitr) >>

\* A faulty variant of PromiseAllResolved: the first promise to settle
\* resolves it (Promise.race).
PromiseAllResolved_any(ps) == \E i \in 1..Len(ps) : Settled(ps[i])

\* Promise.all resolves once every promise handed to it has.
PromiseAllResolved(ps) == \A i \in 1..Len(ps) : Settled(ps[i])

(***************************************************************************)
(* Actions.                                                                *)
(***************************************************************************)
\* The three credential inputs (onChange).
SetUrl(u) ==
    /\ credentials' = [credentials EXCEPT !.url = u]
    /\ UNCHANGED <<loading, error, results, evidence, mfa, rls, pitr, apiCalls, clock, runs, download>>

SetServiceRoleKey(k) ==
    /\ credentials' = [credentials EXCEPT !.serviceRoleKey = k]
    /\ UNCHANGED <<loading, error, results, evidence, mfa, rls, pitr, apiCalls, clock, runs, download>>

SetManagementApiKey(k) ==
    /\ credentials' = [credentials EXCEPT !.managementApiKey = k]
    /\ UNCHANGED <<loading, error, results, evidence, mfa, rls, pitr, apiCalls, clock, runs, download>>

\* handleRunChecks when validateCredentials returns false.
RunChecksInvalid ==
    /\ RunButtonEnabled
    /\ ~validateCredentials(credentials).valid
    /\ error' = validateCredentials(credentials).error
    /\ UNCHANGED <<credentials, loading, results, evidence, mfa, rls, pitr, apiCalls, clock, runs, download>>

\* A faulty variant of RunChecksSetupFails: the handler sets the three
\* results back to pending before it builds the client.
RunChecksSetupFails_resetsResults ==
    /\ RunButtonEnabled
    /\ validateCredentials(credentials).valid
    /\ \E c \in createSupabaseClientOutcomes(credentials) :
          /\ c.tag = "thrown"
          /\ error' = "Failed to run checks: " \o c.error.message
    /\ loading' = FALSE
    /\ results' = InitialResults
    /\ UNCHANGED <<credentials, evidence, mfa, rls, pitr, apiCalls, clock, runs, download>>
\* A faulty variant of RunChecksSetupFails: the handler has no finally block
\* and loading, set before the client is built, stays true.
RunChecksSetupFails_noFinally ==
    /\ RunButtonEnabled
    /\ validateCredentials(credentials).valid
    /\ \E c \in createSupabaseClientOutcomes(credentials) :
          /\ c.tag = "thrown"
          /\ error' = "Failed to run checks: " \o c.error.message
    /\ loading' = TRUE
    /\ UNCHANGED <<credentials, results, evidence, mfa, rls, pitr, apiCalls, clock, runs, download>>
\* handleRunChecks when createSupabaseClient throws: catch, then finally.
RunChecksSetupFails ==
    /\ RunButtonEnabled
    /\ validateCredentials(credentials).valid
    /\ \E c \in createSupabaseClientOutcomes(credentials) :
          /\ c.tag = "thrown"
          /\ error' = "Failed to run checks: " \o c.error.message
    /\ loading' = FALSE
    /\ UNCHANGED <<credentials, results, evidence, mfa, rls, pitr, apiCalls, clock, runs, download>>

\* handleRunChecks up to await Promise.all: the three evaluators are called
\* and each runs to its first await.
RunChecksLaunch ==
    /\ RunButtonEnabled
    /\ runs < MaxRuns
    /\ validateCredentials(credentials).valid
    /\ \E c \in createSupabaseClientOutcomes(credentials) :
          /\ c.tag = "value"
          /\ LET step == checkPITR_start(credentials)
             IN  /\ pitr' = step.pitr
                 /\ apiCalls' = <<ListUsersCall(c.value), RpcCall(c.value)>> \o step.calls
    /\ loading' = TRUE
    /\ error' = ""
    /\ mfa' = CalledCheck
    /\ rls' = CalledCheck
    /\ runs' = runs + 1
    /\ clock' = clock + 1
    /\ UNCHANGED <<credentials, results, evidence, download>>

\* auth.admin.listUsers() settles and checkMFA returns.
ListUsersSettles(resp) ==
    /\ mfa.promise = Pending
    /\ mfa' = [promise |-> AsyncResult(checkMFA(resp)), resp |-> resp]
    /\ UNCHANGED <<credentials, loading, error, results, evidence, rls, pitr, apiCalls, clock, runs, download>>

\* rpc('get_tables_info') settles and checkRLS returns.
RpcSettles(resp) ==
    /\ rls.promise = Pending
    /\ rls' = [promise |-> AsyncResult(checkRLS(resp)), resp |-> resp]
    /\ UNCHANGED <<credentials, loading, error, results, evidence, mfa, pitr, apiCalls, clock, runs, download>>

\* The subscription call settles.
SubscriptionSettles(outcome) ==
    /\ pitr.pc = "subscription"
    /\ pitr.promise = Pending
    /\ LET step == checkPITR_onSubscription(pitr, outcome)
       IN  /\ pitr' = step.pitr
           /\ apiCalls' = apiCalls \o step.calls
    /\ UNCHANGED <<credentials, loading, error, results, evidence, mfa, rls, clock, runs, download>>

\* The backups-info call settles.
BackupsSettles(outcome) ==
    /\ pitr.pc = "backups"
    /\ pitr.promise = Pending
    /\ LET step == checkPITR_onBackups(pitr, outcome)
       IN  /\ pitr' = step.pitr
           /\ apiCalls' = apiCalls \o step.calls
    /\ UNCHANGED <<credentials, loading, error, results, evidence, mfa, rls, clock, runs, download>>

\* An evaluator fails with an error none of its own handlers catches: its
\* promise is rejected.
UncaughtError == MkError("RangeError", "Maximum call stack size exceeded")

EvaluatorThrows(check) ==
    /\ loading
    /\ \/ /\ check = "mfa"
          /\ mfa.promise = Pending
          /\ mfa' = [mfa EXCEPT !.promise = Rejected(UncaughtError)]
          /\ UNCHANGED <<rls, pitr>>
       \/ /\ check = "rls"
          /\ rls.promise = Pending
          /\ rls' = [rls EXCEPT !.promise = Rejected(UncaughtError)]
          /\ UNCHANGED <<mfa, pitr>>
       \/ /\ check = "pitr"
          /\ pitr.promise = Pending
          /\ pitr' = [pitr EXCEPT !.promise = Rejected(UncaughtError), !.pc = "done"]
          /\ UNCHANGED <<mfa, rls>>
    /\ UNCHANGED <<credentials, loading, error, results, evidence, apiCalls, clock, runs, download>>

\* A faulty variant of RunChecksJoin: the log is written from a copy taken
\* before the clear, so the cleared entries of the run before come back in
\* front of the new ones.
RunChecksJoin_staleLog ==
    /\ loading
    /\ PromiseAllResolved(<<mfa.promise, rls.promise, pitr.promise>>)
    /\ LET r == [mfa |-> CatchToError("MFA Check Error: ", mfa.promise),
                 rls |-> CatchToError("RLS Check Error: ", rls.promise),
                 pitr |-> CatchToError("PITR Check Error: ", pitr.promise)]
           stale == IF evidence = <<>> /\ results # InitialResults
                    THEN AppendEvidence(<<>>, toISOString(clock - 1), results)
                    ELSE evidence
       IN  /\ evidence' = AppendEvidence(stale, toISOString(clock), r)
           /\ results' = r
    /\ loading' = FALSE
    /\ mfa' = IdleCheck
    /\ rls' = IdleCheck
    /\ pitr' = IdlePitr
    /\ apiCalls' = <<>>
    /\ UNCHANGED <<credentials, error, clock, runs, download>>
\* A faulty variant of RunChecksJoin: the new results are merged into the
\* record check by check, and the PITR result of the run before stays.
RunChecksJoin_merges ==
    /\ loading
    /\ PromiseAllResolved(<<mfa.promise, rls.promise, pitr.promise>>)
    /\ LET r == [mfa |-> CatchToError("MFA Check Error: ", mfa.promise),
                 rls |-> CatchToError("RLS Check Error: ", rls.promise),
                 pitr |-> CatchToError("PITR Check Error: ", pitr.promise)]
       IN  /\ evidence' = AppendEvidence(evidence, toISOString(clock), r)
           /\ results' = [results EXCEPT !.mfa = r.mfa, !.rls = r.rls]
    /\ loading' = FALSE
    /\ mfa' = IdleCheck
    /\ rls' = IdleCheck
    /\ pitr' = IdlePitr
    /\ apiCalls' = <<>>
    /\ UNCHANGED <<credentials, error, clock, runs, download>>
\* handleRunChecks after await Promise.all: evidence, results, then finally.
RunChecksJoin ==
    /\ loading
    /\ PromiseAllResolved(<<mfa.promise, rls.promise, pitr.promise>>)
    /\ LET r == [mfa |-> CatchToError("MFA Check Error: ", mfa.promise),
                 rls |-> CatchToError("RLS Check Error: ", rls.promise),
                 pitr |-> CatchToError("PITR Check Error: ", pitr.promise)]
       IN  /\ evidence' = AppendEvidence(evidence, toISOString(clock), r)
           /\ results' = r
    /\ loading' = FALSE
    /\ mfa' = IdleCheck
    /\ rls' = IdleCheck
    /\ pitr' = IdlePitr
    /\ apiCalls' = <<>>
    /\ UNCHANGED <<credentials, error, clock, runs, download>>

\* A faulty variant of clearEvidence: the answer to the confirmation is not
\* looked at.
clearEvidence_unconfirmed(confirmed) ==
    /\ evidence # <<>>
    /\ evidence' = <<>>
    /\ UNCHANGED <<credentials, loading, error, results, mfa, rls, pitr, apiCalls, clock, runs, download>>
\* clearEvidence: the Clear Log button shows only while the log is non-empty.
clearEvidence(confirmed) ==
    /\ evidence # <<>>
    /\ evidence' = IF confirmed THEN <<>> ELSE evidence
    /\ UNCHANGED <<credentials, loading, error, results, mfa, rls, pitr, apiCalls, clock, runs, download>>

(***************************************************************************)
(* Inputs: what the user types and what the remote services answer.        *)
(***************************************************************************)
ValidUrl == <<"https://", "abc", ".", "supabase", ".", "co">>
\* Passes validateCredentials (the pattern is not anchored) but is no URL.
OddUrl == <<"x", "https://", "abc", ".", "supabase", ".", "co">>
OtherHostUrl == <<"https://", "abc", ".", "example", ".", "co">>
\* Holds "supabase.co" but no match of the project pattern.
HttpUrl == <<"http://", "abc", ".", "supabase", ".", "co">>

ValidServiceRoleKey == <<"eyJ", "hbGciOi">>
ValidManagementApiKey == <<"sbp_", "1f2e">>

\* What the user can type into the three inputs.
UiUrls == {<<>>, ValidUrl, OddUrl, HttpUrl}
UiServiceRoleKeys == {<<>>, ValidServiceRoleKey, <<"anon">>}
UiManagementApiKeys == {<<>>, ValidManagementApiKey, <<"eyJ", "hbGciOi">>}

\* URLs checkPITR is called with directly.
PitrUrls ==
    UiUrls \cup
    { OtherHostUrl,
      <<"https://", ".", "supabase", ".", "co">>,
      <<"https://", "abc", ".", "xyz", ".", "supabase", ".", "co">>,
      <<"https://", "abc", ".", "supabase", ".", "co", "m", "/", "rest">>,
      <<"https://", "evil", ".", "co", "/", "https://", "xyz", ".", "supabase", ".", "co">>,
      <<"abc", ".", "supabase", ".", "co">> }

PitrCredentials ==
    [url : PitrUrls, serviceRoleKey : {ValidServiceRoleKey},
     managementApiKey : {<<>>, ValidManagementApiKey}]

TestClient == [url |-> ValidUrl, serviceRoleKey |-> ValidServiceRoleKey]

\* Tiers of the subscription response: spellings of "free" and others.
FreeSpellings ==
    { <<"f", "r", "e", "e">>, <<"F", "r", "e", "e">>, <<"F", "R", "E", "E">>,
      <<"f", "R", "e", "E">> }
PaidTiers ==
    { <<"p", "r", "o">>, <<"P", "R", "O">>, <<"f", "r", "e">>,
      <<"f", "r", "e", "e", "r">>, <<>> }
Tiers == FreeSpellings \cup PaidTiers

JsonOk(v) == HttpResponse(200, "OK", [json |-> v])

HttpFailures ==
    { HttpResponse(404, "Not Found", [text |-> "project not found"]),
      HttpResponse(401, "Unauthorized", [text |-> "invalid token"]),
      HttpResponse(500, "Internal Server Error", [text |-> ""]),
      HttpResponse(304, "Not Modified", [text |-> ""]),
      HttpResponse(403, "Forbidden",
                   [json |-> [pitr_enabled |-> TRUE, tier |-> <<"p", "r", "o">>],
                    text |-> "{\"pitr_enabled\":true,\"tier\":\"pro\"}"]),
      HttpResponse(200, "OK", [text |-> "<html>"]),
      HttpFault(FetchError) }

SubscriptionOutcomes ==
    {JsonOk([tier |-> t]) : t \in Tiers}
    \cup { JsonOk([plan |-> "pro"]), JsonOk(Null),
           JsonOk([tier |-> <<"2">>, nonStrings |-> {"tier"}]),
           HttpResponse(201, "Created", [json |-> [tier |-> <<"p", "r", "o">>]]) }
    \cup HttpFailures

BackupInfos ==
    {[pitr_enabled |-> b] : b \in BOOLEAN}
    \cup {[pitr_enabled |-> b, tier |-> <<"o", "l", "d">>, configuration |-> "custom"]
            : b \in BOOLEAN}
    \cup {[region |-> "us-east-1"]}

BackupsOutcomes ==
    {JsonOk(info) : info \in BackupInfos} \cup {JsonOk(Null)} \cup HttpFailures

\* Answers the services give to a run launched from the page.
UserA == [email |-> "a@x.io", factors |-> <<"totp">>]
UserB == [email |-> "b@x.io", factors |-> <<>>]
RunListUsersResponses == { ListUsersOk(<<UserA, UserB>>) }
RunRpcResponses == { RpcResolved(Null, PostgrestError) }
RunSubscriptionOutcomes == { JsonOk([tier |-> <<"p", "r", "o">>]) }
RunBackupsOutcomes == { JsonOk([pitr_enabled |-> TRUE]) }

(***************************************************************************)
(* Calling the evaluators directly.                                        *)
(***************************************************************************)
EvaluatorsIdle ==
    /\ ~loading
    /\ mfa.promise = NoPromise
    /\ rls.promise = NoPromise
    /\ pitr.promise = NoPromise

CallCheckMFA ==
    /\ EvaluatorsIdle
    /\ mfa' = CalledCheck
    /\ apiCalls' = <<ListUsersCall(TestClient)>>
    /\ UNCHANGED <<credentials, loading, error, results, evidence, rls, pitr, clock, runs, download>>

CallCheckRLS ==
    /\ EvaluatorsIdle
    /\ rls' = CalledCheck
    /\ apiCalls' = <<RpcCall(TestClient)>>
    /\ UNCHANGED <<credentials, loading, error, results, evidence, mfa, pitr, clock, runs, download>>

CallCheckPITR(creds) ==
    /\ EvaluatorsIdle
    /\ LET step == checkPITR_start(creds)
       IN  /\ pitr' = step.pitr
           /\ apiCalls' = step.calls
    /\ UNCHANGED <<credentials, loading, error, results, evidence, mfa, rls, clock, runs, download>>

\* The caller takes the result of a settled invocation.
TakeResult ==
    /\ ~loading
    /\ Settled(mfa.promise) \/ Settled(rls.promise) \/ Settled(pitr.promise)
    /\ mfa' = IdleCheck
    /\ rls' = IdleCheck
    /\ pitr' = IdlePitr
    /\ apiCalls' = <<>>
    /\ UNCHANGED <<credentials, loading, error, results, evidence, clock, runs, download>>

(***************************************************************************)
(* EvidenceLog: the exports of the log.  The strings of an exported entry  *)
(* are tuples of pieces; a piece is a double quote, a comma, a line break  *)
(* a backslash or a run of other characters.                               *)
(***************************************************************************)
MaxExportRows == 2     \* longest log handed to the EvidenceLog component

Quote == "\""
Comma == ","
LineBreak == "\n"
Backslash == "\\"

\* No file has been handed to the browser.
NoDownload == [type |-> "none"]

\* parts.join(sep) for strings that are tuples of pieces.
Join(parts, sep) ==
    LET joined[i \in 0..Len(parts)] ==
            IF i = 0 THEN <<>>
            ELSE IF i = 1 THEN parts[1]
            ELSE joined[i - 1] \o sep \o parts[i]
    IN  joined[Len(parts)]

\* A faulty variant of DoubleQuotes: the cell is written as it is.
DoubleQuotes_asIs(cell) == cell

\* String(cell).replace(/"/g, '""')
DoubleQuotes(cell) ==
    LET done[i \in 0..Len(cell)] ==
            IF i = 0 THEN <<>>
            ELSE done[i - 1] \o (IF cell[i] = Quote THEN <<Quote, Quote>> ELSE <<cell[i]>>)
    IN  done[Len(cell)]

\* `"${...}"`
CsvCell(cell) == <<Quote>> \o DoubleQuotes(cell) \o <<Quote>>

CsvHeaders == << <<"Timestamp">>, <<"Check">>, <<"Status">>, <<"Details">> >>

\* The cells of an entry, in the order of the headers.
CsvData(entry) == <<entry.timestamp, entry.check, entry.status, entry.details>>

CsvRow(row) == Join([i \in 1..Len(row) |-> CsvCell(row[i])], <<Comma>>)

csvContent(log) ==
    Join(<<Join(CsvHeaders, <<Comma>>)>> \o [i \in 1..Len(log) |-> CsvRow(CsvData(log[i]))],
         <<LineBreak>>)

\* downloadAsCsv: the Export CSV button; the component renders nothing for
\* an empty log.
downloadAsCsv ==
    /\ evidence # <<>>
    /\ download' = [type |-> "text/csv;charset=utf-8;",
                    name |-> "compliance-evidence-" \o toISOString(clock) \o ".csv",
                    content |-> csvContent(evidence)]
    /\ UNCHANGED <<credentials, loading, error, results, evidence, mfa, rls, pitr,
                   apiCalls, clock, runs>>

\* JSON.stringify of a string: quotes, backslashes and line breaks escaped.
JsonString(str) ==
    LET done[i \in 0..Len(str)] ==
            IF i = 0 THEN <<>>
            ELSE done[i - 1] \o
                 (IF str[i] = Quote THEN <<Backslash, Quote>>
                  ELSE IF str[i] = Backslash THEN <<Backslash, Backslash>>
                  ELSE IF str[i] = LineBreak THEN <<Backslash, "n">>
                  ELSE <<str[i]>>)
    IN  <<Quote>> \o done[Len(str)] \o <<Quote>>

JsonMember(key, value) == <<"    ", Quote, key, Quote, ": ">> \o JsonString(value)

JsonObject(entry) ==
    <<"  {", LineBreak>>
    \o Join(<< JsonMember("timestamp", entry.timestamp),
               JsonMember("check", entry.check),
               JsonMember("status", entry.status),
               JsonMember("details", entry.details) >>, <<Comma, LineBreak>>)
    \o <<LineBreak, "  }">>

\* JSON.stringify(evidence, null, 2)
jsonContent(log) ==
    IF log = <<>> THEN <<"[]">>
    ELSE <<"[", LineBreak>>
         \o Join([i \in 1..Len(log) |-> JsonObject(log[i])], <<Comma, LineBreak>>)
         \o <<LineBreak, "]">>

\* downloadAsJson: the Export JSON button.
downloadAsJson ==
    /\ evidence # <<>>
    /\ download' = [type |-> "application/json",
                    name |-> "compliance-evidence-" \o toISOString(clock) \o ".json",
                    content |-> jsonContent(evidence)]
    /\ UNCHANGED <<credentials, loading, error, results, evidence, mfa, rls, pitr,
                   apiCalls, clock, runs>>

\* Logs handed to the EvidenceLog component: entries whose details hold
\* commas, quotes and line breaks, as the message of a remote error can.
ExportDetails ==
    { <<"MFA is enabled for 1 out of 2 users">>,
      <<>>,
      <<"Failed to check MFA status: invalid JWT", Comma, " ", Quote, "exp", Quote,
        " claim missing">>,
      <<Quote, "quoted", Quote>>,
      <<Quote, Quote>>,
      <<Comma>>,
      <<"RLS Check Error: line one", LineBreak, "line two", Comma, Quote>> }

ExportEntries ==
    {[timestamp |-> <<"2024-05-01T10:00:00.000Z">>, check |-> <<"MFA">>,
      status |-> <<"fail">>, details |-> d] : d \in ExportDetails}
    \cup {[timestamp |-> <<"2024-05-01T10:00:00.000Z">>, check |-> <<"PITR">>,
           status |-> <<"error">>, details |-> d] : d \in ExportDetails}

ExportLogs == SeqsUpTo(ExportEntries, MaxExportRows)

(***************************************************************************)
(* Specifications.                                                         *)
(***************************************************************************)
Init ==
    /\ credentials = EmptyCredentials
    /\ loading = FALSE
    /\ error = ""
    /\ results = InitialResults
    /\ evidence = <<>>
    /\ mfa = IdleCheck
    /\ rls = IdleCheck
    /\ pitr = IdlePitr
    /\ apiCalls = <<>>
    /\ clock = 0
    /\ runs = 0
    /\ download = NoDownload

\* The page: the user edits credentials, runs checks and clears the log while
\* the remote services answer in any order.
Next ==
    \/ \E u \in UiUrls : SetUrl(u)
    \/ \E k \in UiServiceRoleKeys : SetServiceRoleKey(k)
    \/ \E k \in UiManagementApiKeys : SetManagementApiKey(k)
    \/ RunChecksInvalid
    \/ RunChecksSetupFails
    \/ RunChecksLaunch
    \/ \E resp \in RunListUsersResponses : ListUsersSettles(resp)
    \/ \E resp \in RunRpcResponses : RpcSettles(resp)
    \/ \E o \in RunSubscriptionOutcomes : SubscriptionSettles(o)
    \/ \E o \in RunBackupsOutcomes : BackupsSettles(o)
    \/ \E check \in {"mfa", "rls", "pitr"} : EvaluatorThrows(check)
    \/ RunChecksJoin
    \/ \E confirmed \in BOOLEAN : clearEvidence(confirmed)

Spec == Init /\ [][Next]_vars

\* The page when every remote call of a run eventually returns or fails and
\* the continuation of handleRunChecks runs once Promise.all has resolved.
\* The user's steps (editing, pressing Run Checks, clearing) are not forced.
Fairness ==
    /\ WF_vars(\E resp \in RunListUsersResponses : ListUsersSettles(resp))
    /\ WF_vars(\E resp \in RunRpcResponses : RpcSettles(resp))
    /\ WF_vars(\E o \in RunSubscriptionOutcomes : SubscriptionSettles(o))
    /\ WF_vars(\E o \in RunBackupsOutcomes : BackupsSettles(o))
    /\ WF_vars(RunChecksJoin)

\* The page once the user has typed the two keys: from here the user edits
\* the url, presses Run Checks and clears the log.
LiveInit ==
    /\ credentials = [url |-> <<>>, serviceRoleKey |-> ValidServiceRoleKey,
                      managementApiKey |-> ValidManagementApiKey]
    /\ loading = FALSE
    /\ error = ""
    /\ results = InitialResults
    /\ evidence = <<>>
    /\ mfa = IdleCheck
    /\ rls = IdleCheck
    /\ pitr = IdlePitr
    /\ apiCalls = <<>>
    /\ clock = 0
    /\ runs = 0
    /\ download = NoDownload

LiveNext ==
    \/ \E u \in UiUrls : SetUrl(u)
    \/ RunChecksInvalid
    \/ RunChecksSetupFails
    \/ RunChecksLaunch
    \/ \E resp \in RunListUsersResponses : ListUsersSettles(resp)
    \/ \E resp \in RunRpcResponses : RpcSettles(resp)
    \/ \E o \in RunSubscriptionOutcomes : SubscriptionSettles(o)
    \/ \E o \in RunBackupsOutcomes : BackupsSettles(o)
    \/ \E check \in {"mfa", "rls", "pitr"} : EvaluatorThrows(check)
    \/ RunChecksJoin
    \/ \E confirmed \in BOOLEAN : clearEvidence(confirmed)

LiveSpec == LiveInit /\ [][LiveNext]_vars /\ Fairness
\* The evaluators called one at a time on every answer of the services.
EvalNext ==
    \/ CallCheckMFA
    \/ CallCheckRLS
    \/ \E creds \in PitrCredentials : CallCheckPITR(creds)
    \/ \E resp \in ListUsersResponses(MaxUsers) : ListUsersSettles(resp)
    \/ \E resp \in RpcResponses(MaxTables) : RpcSettles(resp)
    \/ \E o \in SubscriptionOutcomes : SubscriptionSettles(o)
    \/ \E o \in BackupsOutcomes : BackupsSettles(o)
    \/ TakeResult

EvalSpec == Init /\ [][EvalNext]_vars

\* The EvidenceLog component rendered with a log, and its two exports.
ExportInit ==
    /\ credentials = EmptyCredentials
    /\ loading = FALSE
    /\ error = ""
    /\ results = InitialResults
    /\ evidence \in ExportLogs
    /\ mfa = IdleCheck
    /\ rls = IdleCheck
    /\ pitr = IdlePitr
    /\ apiCalls = <<>>
    /\ clock = 0
    /\ runs = 0
    /\ download = NoDownload

ExportNext ==
    \/ downloadAsCsv
    \/ downloadAsJson

ExportSpec == ExportInit /\ [][ExportNext]_vars

(***************************************************************************)
(* Properties.                                                             *)
(***************************************************************************)
\* The run in flight completes in this step (handleRunChecks passes its
\* await and reaches finally): the only step that takes loading from TRUE
\* to FALSE.
RunCompletes == loading /\ ~loading'

\* Gateway calls made so far to the backups-info endpoint.
BackupsCalls ==
    {i \in 1..Len(apiCalls) :
        apiCalls[i].op = "GET" /\ apiCalls[i].endpoint.path = "database/backups/info"}

SubscriptionCalls ==
    {i \in 1..Len(apiCalls) :
        apiCalls[i].op = "GET" /\ apiCalls[i].endpoint.path = "subscription"}

\* checkPITR has returned.
PitrReturned == pitr.pc = "done" /\ pitr.promise.state = "fulfilled"

\* A gateway call failed: the key was missing, fetch rejected, the status
\* was outside 200..299, or the body of a 2xx response was not JSON.
HttpCallFailed(outcome) ==
    \/ outcome.tag = "fault"
    \/ /\ outcome.tag = "response"
       /\ \/ outcome.status < 200
          \/ outcome.status > 299
          \/ "json" \notin DOMAIN outcome.body

\* A gateway call succeeded and this is the JSON it returned.
HttpCallSucceeded(outcome) ==
    /\ outcome.tag = "response"
    /\ outcome.status >= 200
    /\ outcome.status <= 299
    /\ "json" \in DOMAIN outcome.body

\* "free" in any letter casing.
IsFreeAnyCasing(t) ==
    /\ Len(t) = 4
    /\ t[1] \in {"f", "F"}
    /\ t[2] \in {"r", "R"}
    /\ t[3] \in {"e", "E"}
    /\ t[4] \in {"e", "E"}

\* The subscription call returned a response whose tier is a string other
\* than "free" in any casing.
SubscriptionNonFree ==
    /\ HttpCallSucceeded(pitr.subResp)
    /\ pitr.subResp.body.json # Null
    /\ IsStringMember(pitr.subResp.body.json, "tier")
    /\ ~IsFreeAnyCasing(pitr.subResp.body.json.tier)

FreeTierMessage ==
    "Point in Time Recovery (PITR) is not available on the free tier. Upgrade to Pro plan or higher to enable this feature."

\* C1: for every user list that listUsers returns without error, checkMFA
\* returns pass if and only if every user of the list has at least one
\* enrolled factor, and fail otherwise; the empty list yields pass.
HasEnrolledFactor(user) == "factors" \in DOMAIN user /\ Len(user.factors) >= 1

C1_MfaPassIffAllEnrolled ==
    (/\ mfa.promise.state = "fulfilled"
     /\ mfa.resp.tag = "resolved"
     /\ mfa.resp.data # Null
     /\ mfa.resp.error = Null)
    => LET users == mfa.resp.data.users
           r == mfa.promise.value
       IN  /\ r.status = IF \A i \in 1..Len(users) : HasEnrolledFactor(users[i])
                         THEN "pass" ELSE "fail"
           /\ (users = <<>> => r.status = "pass")

C1_Witness ==
    /\ mfa.promise.state = "fulfilled"
    /\ mfa.resp.tag = "resolved"
    /\ mfa.resp.data # Null
    /\ mfa.resp.error = Null
    /\ Len(mfa.resp.data.users) = 2
    /\ HasEnrolledFactor(mfa.resp.data.users[1])
    /\ "factors" \notin DOMAIN mfa.resp.data.users[2]
    /\ mfa.promise.value.status = "fail"

\* C2: when a run completes, a check whose evaluator rejected gets a result
\* of status error, every other check gets exactly the result its evaluator
\* returned, and the run yields all three results and three evidence entries.
C2_FanOutIsolation ==
    [][RunCompletes =>
        /\ DOMAIN results' = {"mfa", "rls", "pitr"}
        /\ Len(evidence') = Len(evidence) + 3
        /\ \A c \in {"mfa", "rls", "pitr"} :
              LET p == IF c = "mfa" THEN mfa.promise
                       ELSE IF c = "rls" THEN rls.promise ELSE pitr.promise
              IN  /\ Settled(p)
                  /\ p.state = "rejected" => results'[c].status = "error"
                  /\ p.state = "fulfilled" => results'[c] = p.value]_vars

C2_Witness ==
    /\ ~loading
    /\ runs > 0
    /\ results.mfa.status = "error"
    /\ results.mfa.message = "MFA Check Error: Maximum call stack size exceeded"
    /\ results.rls = checkRLS_noData
    /\ results.pitr.status = "pass"
    /\ Len(evidence) = 3

\* C3: while some evaluator of the run in flight has not settled, no step
\* changes the Results Record or adds or alters an entry of the Evidence Log
\* (the log can only be emptied, by the user's confirmed Clear Log); a step
\* that writes results or evidence writes all three checks of the run at once.
EvaluatorsUnsettled ==
    loading /\ ~(Settled(mfa.promise) /\ Settled(rls.promise) /\ Settled(pitr.promise))

C3_JoinSemantics ==
    [][/\ EvaluatorsUnsettled => (results' = results /\ evidence' \in {evidence, <<>>})
       /\ (results' # results \/ Len(evidence') > Len(evidence)) =>
            /\ Settled(mfa.promise) /\ Settled(rls.promise) /\ Settled(pitr.promise)
            /\ \A c \in {"mfa", "rls", "pitr"} : results'[c].status # "pending"
            /\ Len(evidence') = Len(evidence) + 3]_vars

C3_Witness ==
    /\ loading
    /\ Settled(mfa.promise)
    /\ Settled(rls.promise)
    /\ pitr.promise = Pending
    /\ pitr.pc = "backups"
    /\ results.mfa.status # "pending"
    /\ Len(evidence) = 3

\* C4: the step that completes a run appends exactly three entries to the end
\* of the Evidence Log, for MFA, RLS and PITR in that order, carrying the
\* run's results, and the log before the step is a prefix of the log after.
C4_EvidenceAppended ==
    [][RunCompletes =>
        LET n == Len(evidence)
        IN  /\ Len(evidence') = n + 3
            /\ SubSeq(evidence', 1, n) = evidence
            /\ evidence'[n + 1].check = "MFA"
            /\ evidence'[n + 2].check = "RLS"
            /\ evidence'[n + 3].check = "PITR"
            /\ evidence'[n + 1].status = results'.mfa.status
            /\ evidence'[n + 2].status = results'.rls.status
            /\ evidence'[n + 3].status = results'.pitr.status]_vars

C4_Witness ==
    /\ ~loading
    /\ Len(evidence) = 6
    /\ evidence[1].timestamp # evidence[4].timestamp
    /\ evidence[1].status # evidence[4].status
    /\ evidence[4].check = "MFA"
    /\ evidence[5].check = "RLS"
    /\ evidence[6].check = "PITR"

\* C5: when the subscription call fails, checkPITR returns status fail with
\* the free-tier message and the backups-info endpoint is not called.
SubscriptionCallFailed ==
    /\ SubscriptionCalls # {}
    /\ \/ pitr.credentials.managementApiKey = <<>>
       \/ HttpCallFailed(pitr.subResp)

C5_SubscriptionFailureIsFreeTier ==
    (PitrReturned /\ SubscriptionCallFailed)
    => /\ pitr.promise.value.status = "fail"
       /\ pitr.promise.value.message = FreeTierMessage
       /\ BackupsCalls = {}

C5_Witness ==
    /\ PitrReturned
    /\ pitr.subResp.tag = "response"
    /\ pitr.subResp.status = 404
    /\ pitr.promise.value.status = "fail"
    /\ Len(apiCalls) = 1

\* C6: when the subscription call succeeds with a tier that is "free" in any
\* letter casing, checkPITR returns status fail with the free-tier message and
\* the backups-info endpoint is never called in that invocation.
SubscriptionIsFree ==
    /\ HttpCallSucceeded(pitr.subResp)
    /\ pitr.subResp.body.json # Null
    /\ IsStringMember(pitr.subResp.body.json, "tier")
    /\ IsFreeAnyCasing(pitr.subResp.body.json.tier)

C6_FreeTierShortCircuits ==
    /\ (pitr.promise # NoPromise /\ SubscriptionIsFree) => (PitrReturned /\ BackupsCalls = {})
    /\ (PitrReturned /\ SubscriptionIsFree)
       => /\ pitr.promise.value.status = "fail"
          /\ pitr.promise.value.message = FreeTierMessage

C6_Witness ==
    /\ PitrReturned
    /\ HttpCallSucceeded(pitr.subResp)
    /\ pitr.subResp.body.json = [tier |-> <<"F", "R", "E", "E">>]
    /\ pitr.promise.value.status = "fail"
    /\ BackupsCalls = {}

\* C7: when the subscription call succeeds with a non-free tier and the
\* backups-info call succeeds, checkPITR returns pass if and only if the
\* backup descriptor reports pitr_enabled true and fail otherwise; the
\* configuration tag of the details is "enabled" exactly when the status is
\* pass, and the tier of the details is the tier of the subscription response.
ReportsPitrEnabled(info) ==
    info # Null /\ "pitr_enabled" \in DOMAIN info /\ info.pitr_enabled = TRUE

ConfigurationTag(details) ==
    IF "configuration" \in DOMAIN details THEN details.configuration ELSE "absent"

C7_PassIffPitrEnabled ==
    (PitrReturned /\ SubscriptionNonFree /\ HttpCallSucceeded(pitr.backResp))
    => LET r == pitr.promise.value
           info == pitr.backResp.body.json
       IN  /\ r.status = IF ReportsPitrEnabled(info) THEN "pass" ELSE "fail"
           /\ (ConfigurationTag(r.details) = "enabled") <=> (r.status = "pass")
           /\ r.details.tier = pitr.subResp.body.json.tier

C7_Witness ==
    /\ PitrReturned
    /\ SubscriptionNonFree
    /\ HttpCallSucceeded(pitr.backResp)
    /\ pitr.backResp.body.json =
         [pitr_enabled |-> TRUE, tier |-> <<"o", "l", "d">>, configuration |-> "custom"]
    /\ pitr.promise.value.status = "pass"
    /\ pitr.promise.value.details.tier = <<"P", "R", "O">>

\* C8: when the subscription call succeeds with a non-free tier and the
\* backups-info call fails, checkPITR returns status fail with the "available
\* but not configured" message, and the details carry the subscription tier
\* and the message of the failure.
NotConfiguredMessage ==
    "Point in Time Recovery is available but not configured. You can enable it in your project settings."

C8_BackupsFailureIsNotConfigured ==
    (PitrReturned /\ SubscriptionNonFree /\ HttpCallFailed(pitr.backResp))
    => LET r == pitr.promise.value
       IN  /\ r.status = "fail"
           /\ r.message = NotConfiguredMessage
           /\ r.details.tier = pitr.subResp.body.json.tier
           /\ r.details.error = callManagementApi(pitr.backResp).error.message

C8_Witness ==
    /\ PitrReturned
    /\ SubscriptionNonFree
    /\ pitr.backResp.tag = "response"
    /\ pitr.backResp.status = 500
    /\ pitr.promise.value.status = "fail"
    /\ pitr.promise.value.details.error =
         "Error during Management API call: Management API call failed: 500 Internal Server Error. Details: "

\* C9: when the URL of the credential bundle holds no match of
\* https://<label>.supabase.co, checkPITR returns status error at once and
\* issues no remote call.
HasProjectPattern(url) ==
    \E i \in 1..Len(url) : \E j \in (i + 2)..Len(url) :
        /\ url[i] = "https://"
        /\ \A k \in (i + 1)..(j - 1) : url[k] # "."
        /\ j + 3 <= Len(url)
        /\ SubSeq(url, j, j + 3) = <<".", "supabase", ".", "co">>

C9_UnresolvedProjectIsError ==
    (pitr.promise # NoPromise /\ ~HasProjectPattern(pitr.credentials.url))
    => /\ PitrReturned
       /\ pitr.promise.value.status = "error"
       /\ apiCalls = <<>>

C9_Witness ==
    /\ PitrReturned
    /\ pitr.credentials.url = <<"http://", "abc", ".", "supabase", ".", "co">>
    /\ pitr.credentials.managementApiKey = ValidManagementApiKey
    /\ pitr.promise.value.status = "error"
    /\ apiCalls = <<>>

\* C10: when get_tables_info reports an error or returns no data, checkRLS
\* returns status pass with empty details.
RlsNoData ==
    /\ rls.resp.tag = "resolved"
    /\ \/ rls.resp.error # Null
       \/ rls.resp.data = Null
       \/ rls.resp.data = RpcArray(<<>>)

C10_RlsNoDataPasses ==
    (rls.promise.state = "fulfilled" /\ RlsNoData)
    => /\ rls.promise.value.status = "pass"
       /\ rls.promise.value.details = [array |-> <<>>]

C10_Witness ==
    /\ rls.promise.state = "fulfilled"
    /\ rls.resp.tag = "resolved"
    /\ rls.resp.error = PostgrestError
    /\ rls.resp.data = Null
    /\ rls.promise.value.status = "pass"

\* C11: when get_tables_info returns a list of tables without error, checkRLS
\* returns pass if and only if every row has rls_enabled true and fail
\* otherwise; on fail the message reports "k out of N", k the number of rows
\* with rls_enabled true and N the number of rows.
ReportsRlsEnabled(table) == "rls_enabled" \in DOMAIN table /\ table.rls_enabled = TRUE

RlsTablesReturned ==
    /\ rls.promise.state = "fulfilled"
    /\ rls.resp.tag = "resolved"
    /\ rls.resp.error = Null
    /\ "array" \in DOMAIN rls.resp.data

C11_RlsPassIffAllEnabled ==
    RlsTablesReturned
    => LET tables == rls.resp.data.array
           r == rls.promise.value
           k == Cardinality({i \in 1..Len(tables) : ReportsRlsEnabled(tables[i])})
       IN  /\ r.status = IF k = Len(tables) THEN "pass" ELSE "fail"
           /\ r.status = "fail" =>
                r.message = "RLS is enabled on " \o ToString(k) \o " out of "
                            \o ToString(Len(tables)) \o " tables"

C11_Witness ==
    /\ RlsTablesReturned
    /\ Len(rls.resp.data.array) = 2
    /\ ReportsRlsEnabled(rls.resp.data.array[1])
    /\ ~ReportsRlsEnabled(rls.resp.data.array[2])
    /\ rls.promise.value.status = "fail"
    /\ rls.promise.value.message = "RLS is enabled on 1 out of 2 tables"

\* C12: whenever listUsers resolves with an error value or throws, checkMFA
\* returns status error, never pass or fail, and the result message embeds
\* the message of the failure.
MfaListingFailed ==
    /\ mfa.promise.state = "fulfilled"
    /\ \/ mfa.resp.tag = "thrown"
       \/ mfa.resp.tag = "resolved" /\ mfa.resp.error # Null

C12_MfaFailureIsError ==
    MfaListingFailed
    => LET e == mfa.resp.error
           r == mfa.promise.value
       IN  /\ r.status = "error"
           /\ "message" \in DOMAIN e =>
                r.message = "Failed to check MFA status: " \o e.message

C12_Witness ==
    /\ MfaListingFailed
    /\ mfa.resp.tag = "resolved"
    /\ mfa.resp.data = [users |-> <<>>]
    /\ mfa.resp.error = AuthError
    /\ mfa.promise.value.status = "error"
    /\ mfa.promise.value.message = "Failed to check MFA status: User not allowed"

\* C13: no exception escapes an evaluator.  Whatever the remote operations
\* answer (a value, an error value, a thrown exception, a response of the
\* wrong shape), the promise of checkMFA, checkRLS and checkPITR is never
\* rejected; it is fulfilled as soon as the last remote operation of the
\* invocation has answered, with a result of status pass, fail or error.
IsCheckResult(p) ==
    /\ p.state # "rejected"
    /\ p.state = "fulfilled" => p.value.status \in {"pass", "fail", "error"}

C13_NoExceptionEscapes ==
    /\ IsCheckResult(mfa.promise)
    /\ IsCheckResult(rls.promise)
    /\ IsCheckResult(pitr.promise)
    /\ mfa.resp # NoResp => mfa.promise.state = "fulfilled"
    /\ rls.resp # NoResp => rls.promise.state = "fulfilled"
    /\ pitr.promise = Pending =>
         \/ pitr.pc = "subscription" /\ pitr.subResp = NoResp
         \/ pitr.pc = "backups" /\ pitr.backResp = NoResp

C13_Witness ==
    /\ PitrReturned
    /\ HttpCallSucceeded(pitr.subResp)
    /\ pitr.subResp.body.json = [plan |-> "pro"]
    /\ pitr.promise.value.status = "error"
    /\ pitr.promise.value.details.name = "TypeError"

\* C14: the three evidence entries a run appends carry one and the same
\* timestamp: the log is a sequence of runs of three entries (MFA, RLS, PITR),
\* and the entries of each run agree on the timestamp.
RunsInLog == Len(evidence) \div 3

C14_SharedTimestamp ==
    /\ Len(evidence) % 3 = 0
    /\ \A k \in 0..(RunsInLog - 1) :
          /\ evidence[3 * k + 1].check = "MFA"
          /\ evidence[3 * k + 2].check = "RLS"
          /\ evidence[3 * k + 3].check = "PITR"
          /\ evidence[3 * k + 2].timestamp = evidence[3 * k + 1].timestamp
          /\ evidence[3 * k + 3].timestamp = evidence[3 * k + 1].timestamp

C14_Witness ==
    /\ Len(evidence) = 6
    /\ evidence[3].timestamp = evidence[1].timestamp
    /\ evidence[6].timestamp = evidence[4].timestamp
    /\ evidence[4].timestamp # evidence[1].timestamp

\* C15: the Results Record starts with mfa, rls and pitr all pending and
\* always has exactly these three keys; the only step that changes it is the
\* completion of a run, which replaces all three results by the results of
\* that run's evaluators, so the record never mixes two runs.
ResultOfRun(p, r) ==
    /\ p.state = "fulfilled" => r = p.value
    /\ p.state = "rejected" =>
         /\ r.status = "error"
         /\ \E prefix \in {"MFA Check Error: ", "RLS Check Error: ", "PITR Check Error: "} :
               r.message = prefix \o p.reason.message

C15_ResultsWholesale ==
    /\ results = InitialResults
    /\ [](/\ DOMAIN results = {"mfa", "rls", "pitr"}
          /\ \/ results = InitialResults
             \/ \A c \in {"mfa", "rls", "pitr"} : results[c].status # "pending")
    /\ [][results' # results =>
            /\ RunCompletes
            /\ ResultOfRun(mfa.promise, results'.mfa)
            /\ ResultOfRun(rls.promise, results'.rls)
            /\ ResultOfRun(pitr.promise, results'.pitr)]_vars

C15_Witness ==
    /\ ~loading
    /\ runs = 2
    /\ Len(evidence) = 6
    /\ evidence[1].status = "fail"
    /\ evidence[3].status = "pass"
    /\ results.mfa.status = "error"
    /\ results.rls = checkRLS_noData
    /\ results.pitr.status = "error"

\* C16: status pending appears only before the first run has completed.  No
\* evaluator returns pending, so from the completion of the first run on no
\* check of the Results Record is pending, also while a later run is in
\* flight, and no entry of the Evidence Log ever has status pending.
CompletedRuns == IF loading THEN runs - 1 ELSE runs

C16_PendingOnlyBeforeFirstRun ==
    /\ CompletedRuns = 0 => results = InitialResults
    /\ CompletedRuns >= 1 => \A c \in {"mfa", "rls", "pitr"} : results[c].status # "pending"
    /\ \A i \in 1..Len(evidence) : evidence[i].status # "pending"
    /\ mfa.promise.state = "fulfilled" => mfa.promise.value.status # "pending"
    /\ rls.promise.state = "fulfilled" => rls.promise.value.status # "pending"
    /\ pitr.promise.state = "fulfilled" => pitr.promise.value.status # "pending"

C16_Witness ==
    /\ loading
    /\ runs = 2
    /\ mfa.promise = Pending
    /\ rls.promise = Pending
    /\ pitr.promise = Pending
    /\ results.mfa.status = "fail"
    /\ results.rls.status = "pass"
    /\ results.pitr.status = "pass"
    /\ Len(evidence) = 3

\* C17: a validation error blocks the run entirely.  While no run is in
\* flight and the credentials fail validation (no https://<label>.supabase.co
\* in the URL, a service-role key not starting with "eyJ", or a management
\* key not starting with "sbp_"), no step that leaves the credentials as they
\* are issues a remote call, starts an evaluator, sets loading or changes the
\* Results Record; pressing Run Checks only sets the validation message, and
\* leaves the Evidence Log as it is.
PrefixIsNot(key, prefix) == key = <<>> \/ key[1] # prefix

FailsValidation(c) ==
    \/ ~HasProjectPattern(c.url)
    \/ PrefixIsNot(c.serviceRoleKey, "eyJ")
    \/ PrefixIsNot(c.managementApiKey, "sbp_")

ValidationMessage(c) ==
    IF ~HasProjectPattern(c.url)
    THEN "Invalid Project URL. Must be a Supabase URL (e.g., https://project.supabase.co)"
    ELSE IF PrefixIsNot(c.serviceRoleKey, "eyJ")
    THEN "Invalid Service Role Key. Must start with \"eyJ\""
    ELSE "Invalid Management API Key. Must start with \"sbp_\""

C17_ValidationBlocksRun ==
    [][(~loading /\ FailsValidation(credentials) /\ credentials' = credentials) =>
          /\ apiCalls' = apiCalls
          /\ mfa' = mfa /\ rls' = rls /\ pitr' = pitr
          /\ loading' = loading
          /\ runs' = runs
          /\ results' = results
          /\ evidence' \in {evidence, <<>>}
          /\ error' # error =>
               /\ error' = ValidationMessage(credentials)
               /\ evidence' = evidence]_vars

C17_Witness ==
    /\ ~loading
    /\ runs = 1
    /\ credentials.url = ValidUrl
    /\ credentials.serviceRoleKey = ValidServiceRoleKey
    /\ PrefixIsNot(credentials.managementApiKey, "sbp_")
    /\ error = "Invalid Management API Key. Must start with \"sbp_\""
    /\ Len(evidence) = 3
    /\ results.mfa.status = "fail"
    /\ apiCalls = <<>>

\* C18: the Evidence Log shrinks only through the clear operation.  Every
\* step leaves the log as it is, appends to it, or empties it completely; the
\* step that empties it changes nothing else (it is the confirmed Clear Log,
\* not a run or a credential edit), and a declined Clear Log leaves the log
\* unchanged.
ExtendsLog(old, new) == Len(new) >= Len(old) /\ SubSeq(new, 1, Len(old)) = old

C18_LogShrinksOnlyByClear ==
    [][/\ \/ ExtendsLog(evidence, evidence')
          \/ /\ evidence' = <<>>
             /\ UNCHANGED <<credentials, loading, error, results, mfa, rls, pitr,
                            apiCalls, clock, runs, download>>
       /\ clearEvidence(FALSE) => evidence' = evidence
       /\ clearEvidence(TRUE) => evidence' = <<>>]_vars

C18_Witness ==
    /\ evidence = <<>>
    /\ ~loading
    /\ runs = 1
    /\ results.mfa.status = "fail"
    /\ results.pitr.status = "pass"

\* C19: callManagementApi treats every response with a status outside
\* 200..299 as a failure: it throws instead of returning the body's JSON, and
\* the message of what it throws holds the status code and the text of the
\* body.  This holds for the gateway the evaluators call and for the one in
\* lib/supabase, and shows in checkPITR: a backups-info response with such a
\* status is reported with that message, whatever its body.
NonOkResponse(o) == o.tag = "response" /\ (o.status < 200 \/ o.status > 299)

StatusAndBody(o, separator) ==
    ToString(o.status) \o " " \o o.statusText \o separator \o o.body.text

GatewayThrowsStatus(o) ==
    /\ callManagementApi(o).tag = "thrown"
    /\ callManagementApi(o).error.message =
         "Error during Management API call: Management API call failed: "
         \o StatusAndBody(o, ". Details: ")
    /\ LibCallManagementApi(o).tag = "thrown"
    /\ LibCallManagementApi(o).error.message =
         "API call failed: " \o StatusAndBody(o, ". ")

C19_GatewayRejectsNon2xx ==
    /\ NonOkResponse(pitr.subResp) => GatewayThrowsStatus(pitr.subResp)
    /\ NonOkResponse(pitr.backResp) => GatewayThrowsStatus(pitr.backResp)
    /\ (PitrReturned /\ NonOkResponse(pitr.subResp)) =>
         /\ pitr.promise.value.status = "fail"
         /\ pitr.promise.value.message = FreeTierMessage
    /\ (PitrReturned /\ NonOkResponse(pitr.backResp)) =>
         /\ pitr.promise.value.status = "fail"
         /\ pitr.promise.value.details.error =
              "Error during Management API call: Management API call failed: "
              \o StatusAndBody(pitr.backResp, ". Details: ")

C19_Witness ==
    /\ PitrReturned
    /\ pitr.backResp.tag = "response"
    /\ pitr.backResp.status = 403
    /\ "json" \in DOMAIN pitr.backResp.body
    /\ pitr.backResp.body.json.pitr_enabled = TRUE
    /\ pitr.promise.value.status = "fail"
    /\ pitr.promise.value.details.error =
         "Error during Management API call: Management API call failed: 403 Forbidden. Details: {\"pitr_enabled\":true,\"tier\":\"pro\"}"

\* C20: the CSV export of the Evidence Log starts with the header row
\* Timestamp,Check,Status,Details and has one row per entry in log order;
\* every field of a row is wrapped in double quotes with its own double
\* quotes doubled, so that a reader following RFC 4180 (taking the line break
\* the export writes as the end of a record) gets back the header names and,
\* for every entry, its four field values, commas, quotes and line breaks
\* included.
QuotesIn(text) == Cardinality({i \in 1..Len(text) : text[i] = Quote})

\* The k-th smallest member of a set of positions.
Nth(S, k) == CHOOSE x \in S : Cardinality({y \in S : y < x}) = k - 1

\* A comma or line break separates only outside a quoted field, which is
\* where an even number of double quotes precede it.
Separators(text) ==
    {i \in 1..Len(text) :
        /\ text[i] \in {Comma, LineBreak}
        /\ QuotesIn(SubSeq(text, 1, i - 1)) % 2 = 0}

\* The stretches of text[from..to] between the separators of seps.
SplitAt(text, from, to, seps) ==
    LET cuts == {i \in seps : from <= i /\ i <= to}
        start(k) == IF k = 1 THEN from ELSE Nth(cuts, k - 1) + 1
        stop(k) == IF k = Cardinality(cuts) + 1 THEN to ELSE Nth(cuts, k) - 1
    IN  [k \in 1..(Cardinality(cuts) + 1) |-> SubSeq(text, start(k), stop(k))]

\* The value of a field: a quoted field loses its enclosing quotes, and of
\* every two double quotes in a row inside it the second is dropped.
Unquote(raw) ==
    IF raw = <<>> \/ raw[1] # Quote THEN raw
    ELSE LET inner == SubSeq(raw, 2, Len(raw) - 1)
             quotesUpTo(j) ==
                 j - (IF \E k \in 1..j : inner[k] # Quote
                      THEN CHOOSE k \in 1..j :
                              inner[k] # Quote /\ \A m \in (k + 1)..j : inner[m] = Quote
                      ELSE 0)
             kept == {j \in 1..Len(inner) : inner[j] # Quote \/ quotesUpTo(j) % 2 = 1}
         IN  [k \in 1..Cardinality(kept) |-> inner[Nth(kept, k)]]

ParseCsv(text) ==
    LET seps == Separators(text)
        lines == SplitAt(text, 1, Len(text), {i \in seps : text[i] = LineBreak})
        cells(line) == SplitAt(line, 1, Len(line), Separators(line))
    IN  [r \in 1..Len(lines) |->
            [f \in 1..Len(cells(lines[r])) |-> Unquote(cells(lines[r])[f])]]

QuotesInLog(log) ==
    LET sum[i \in 0..Len(log)] ==
            IF i = 0 THEN 0
            ELSE sum[i - 1] + QuotesIn(log[i].timestamp) + QuotesIn(log[i].check)
                 + QuotesIn(log[i].status) + QuotesIn(log[i].details)
    IN  sum[Len(log)]

C20_CsvRoundTrip ==
    download.type = "text/csv;charset=utf-8;"
    => LET rows == ParseCsv(download.content)
       IN  /\ SubSeq(download.content, 1, 8) =
                <<"Timestamp", Comma, "Check", Comma, "Status", Comma, "Details", LineBreak>>
           /\ Len(rows) = Len(evidence) + 1
           /\ rows[1] = << <<"Timestamp">>, <<"Check">>, <<"Status">>, <<"Details">> >>
           /\ \A i \in 1..Len(evidence) :
                 rows[i + 1] = << evidence[i].timestamp, evidence[i].check,
                                  evidence[i].status, evidence[i].details >>
           /\ QuotesIn(download.content) = 8 * Len(evidence) + 2 * QuotesInLog(evidence)

C20_Witness ==
    /\ download.type = "text/csv;charset=utf-8;"
    /\ Len(evidence) = 2
    /\ evidence[1].details =
         <<"Failed to check MFA status: invalid JWT", Comma, " ", Quote, "exp", Quote,
           " claim missing">>
    /\ evidence[2].details = <<Quote, Quote>>
    /\ Len(ParseCsv(download.content)) = 3

\* C21: credentials never reach the outputs.  A CheckResult has the fields
\* status, message and details and no credential field, in itself or in its
\* details; the result of checkPITR, the member of the Results Record and the
\* evidence entry handleRunChecks derives from it are the same for every
\* other pair of key values, given the same url and the same answers of the
\* Management API.
OtherServiceRoleKey == <<"eyJ", "pc3MiOiJ">>
OtherManagementApiKey == <<"sbp_", "9a8b">>

\* Bundles that differ from c in the key values only.  A missing management
\* key stops the gateway before it calls fetch, so a bundle with a key and one
\* without do not get the same answers.
SameButKeys(c) ==
    { [url |-> c.url, serviceRoleKey |-> s, managementApiKey |-> m] :
        s \in {ValidServiceRoleKey, OtherServiceRoleKey},
        m \in IF c.managementApiKey = <<>> THEN {<<>>}
              ELSE {ValidManagementApiKey, OtherManagementApiKey} }

\* checkPITR run again with other credentials on the answers it got.
ReplayPitr(creds, subResp, backResp) ==
    LET s0 == checkPITR_start(creds).pitr
        s1 == IF s0.pc = "subscription" /\ subResp # NoResp
              THEN checkPITR_onSubscription(s0, subResp).pitr ELSE s0
    IN  IF s1.pc = "backups" /\ backResp # NoResp
        THEN checkPITR_onBackups(s1, backResp).pitr ELSE s1

NoCredentialField(r) ==
    /\ DOMAIN r = {"status", "message", "details"}
    /\ DOMAIN r.details \cap {"serviceRoleKey", "managementApiKey", "key"} = {}

C21_CredentialsNeverInOutputs ==
    /\ mfa.promise.state = "fulfilled" => NoCredentialField(mfa.promise.value)
    /\ rls.promise.state = "fulfilled" => NoCredentialField(rls.promise.value)
    /\ pitr.promise.state = "fulfilled" => NoCredentialField(pitr.promise.value)
    /\ pitr.promise # NoPromise =>
         \A alt \in SameButKeys(pitr.credentials) :
            LET again == ReplayPitr(alt, pitr.subResp, pitr.backResp)
                r == CatchToError("PITR Check Error: ", pitr.promise)
                rAgain == CatchToError("PITR Check Error: ", again.promise)
            IN  /\ again.promise = pitr.promise
                /\ again.pc = pitr.pc
                /\ rAgain = r
                /\ EvidenceEntry("T", "PITR", rAgain) = EvidenceEntry("T", "PITR", r)

C21_Witness ==
    /\ PitrReturned
    /\ pitr.credentials.managementApiKey = ValidManagementApiKey
    /\ pitr.backResp.tag = "response"
    /\ pitr.backResp.status = 401
    /\ pitr.promise.value.details.error =
         "Error during Management API call: Management API call failed: 401 Unauthorized. Details: invalid token"
    /\ ReplayPitr([pitr.credentials EXCEPT !.managementApiKey = OtherManagementApiKey,
                                           !.serviceRoleKey = OtherServiceRoleKey],
                  pitr.subResp, pitr.backResp).promise = pitr.promise

\* C22: within one invocation of checkPITR the gateway calls made so far are
\* a prefix of <<subscription, backups-info>>, both for the project of the
\* url: no endpoint is called twice, and backups-info is called only once the
\* subscription call has returned a response with a tier other than "free".
PitrEndpointsCalled ==
    LET gets == SelectSeq(apiCalls, LAMBDA c : c.op = "GET")
    IN  [i \in 1..Len(gets) |-> gets[i].endpoint]

IsPrefixOf(s, t) == Len(s) <= Len(t) /\ SubSeq(t, 1, Len(s)) = s

C22_PitrCallSequence ==
    pitr.promise # NoPromise
    => /\ IsPrefixOf(PitrEndpointsCalled,
                     << [project |-> pitr.projectRef, path |-> "subscription"],
                        [project |-> pitr.projectRef, path |-> "database/backups/info"] >>)
       /\ Len(PitrEndpointsCalled) = 2 => SubscriptionNonFree
       /\ (pitr.pc = "subscription" /\ pitr.promise = Pending) => Len(PitrEndpointsCalled) = 1
       /\ pitr.pc = "backups" => Len(PitrEndpointsCalled) = 2

C22_Witness ==
    /\ PitrReturned
    /\ Len(PitrEndpointsCalled) = 2
    /\ PitrEndpointsCalled[1].path = "subscription"
    /\ PitrEndpointsCalled[2].path = "database/backups/info"
    /\ HttpCallFailed(pitr.backResp)
    /\ pitr.subResp.body.json.tier = <<>>
    /\ pitr.promise.value.status = "fail"

\* C23: when the subscription call succeeds but the response has no tier that
\* is a string (the response is null, has no tier member, or has a tier of
\* another type), checkPITR returns status error with the message of its outer
\* catch block, the details describe the exception, and the backups-info
\* endpoint is not called.
SubscriptionWithoutStringTier ==
    /\ HttpCallSucceeded(pitr.subResp)
    /\ LET json == pitr.subResp.body.json
       IN  \/ json = Null
           \/ "tier" \notin DOMAIN json
           \/ ("nonStrings" \in DOMAIN json /\ "tier" \in json.nonStrings)

C23_MissingTierIsError ==
    (pitr.promise # NoPromise /\ SubscriptionWithoutStringTier)
    => /\ PitrReturned
       /\ pitr.promise.value.status = "error"
       /\ pitr.promise.value.message =
            "Failed to check PITR status. Please verify your credentials and try again."
       /\ pitr.promise.value.details.name = "TypeError"
       /\ BackupsCalls = {}
       /\ Len(apiCalls) = 1

C23_Witness ==
    /\ PitrReturned
    /\ HttpCallSucceeded(pitr.subResp)
    /\ pitr.subResp.body.json # Null
    /\ "tier" \notin DOMAIN pitr.subResp.body.json
    /\ pitr.promise.value.status = "error"
    /\ pitr.promise.value.details.message =
         "Cannot read properties of undefined (reading 'toLowerCase')"
    /\ BackupsCalls = {}

\* C24: the credentials of a run are those of the moment it was triggered.
\* The bundle handed to checkPITR at the trigger is the bundle of the page at
\* that moment and no later step of the run changes it, whatever the user
\* types meanwhile; every remote call of the run in flight (listUsers,
\* get_tables_info, subscription, backups-info) carries the url, the project
\* reference and the key of that bundle.
CallUses(call, creds) ==
    IF call.op = "GET"
    THEN /\ call.key = creds.managementApiKey
         /\ extractProjectRef(creds.url) # Null
         /\ call.endpoint.project = extractProjectRef(creds.url).match
    ELSE /\ call.url = creds.url
         /\ call.key = creds.serviceRoleKey

C24_CredentialsFixedDuringRun ==
    /\ [](loading => \A i \in 1..Len(apiCalls) : CallUses(apiCalls[i], pitr.credentials))
    /\ [][/\ (~loading /\ loading') => pitr'.credentials = credentials
          /\ (loading /\ loading') => pitr'.credentials = pitr.credentials]_vars

C24_Witness ==
    /\ loading
    /\ pitr.pc = "backups"
    /\ pitr.credentials.url = ValidUrl
    /\ credentials.url = HttpUrl
    /\ credentials.serviceRoleKey = <<"anon">>
    /\ credentials.managementApiKey = <<>>
    /\ Len(apiCalls) = 4
    /\ apiCalls[4].endpoint.path = "database/backups/info"
    /\ apiCalls[4].key = ValidManagementApiKey
    /\ apiCalls[4].endpoint.project = <<"abc">>

\* C25: at most one run is in flight.  From the step that starts a run to the
\* step that completes it loading is true and the Run Checks button is
\* disabled, so no run starts while another is in flight: a started evaluator
\* is never started again before the run completes, the run that completes is
\* the one that was started last, and its completion is the only step of the
\* run that adds to the Evidence Log or writes the Results Record.
RunInFlight ==
    mfa.promise # NoPromise /\ rls.promise # NoPromise /\ pitr.promise # NoPromise

NotRestarted(before, after) == before.promise # Pending => after.promise = before.promise

C25_SingleRunInFlight ==
    /\ [](/\ loading <=> RunInFlight
          /\ loading => ~RunButtonEnabled)
    /\ [][/\ runs' # runs => (~loading /\ loading' /\ runs' = runs + 1)
          /\ (loading /\ loading') =>
                /\ NotRestarted(mfa, mfa')
                /\ NotRestarted(rls, rls')
                /\ NotRestarted(pitr, pitr')
                /\ results' = results
                /\ evidence' \in {evidence, <<>>}
          /\ (loading /\ ~loading') =>
                /\ PromiseAllResolved(<<mfa.promise, rls.promise, pitr.promise>>)
                /\ Len(evidence') = Len(evidence) + 3
                /\ evidence'[Len(evidence')].timestamp = toISOString(runs)]_vars

C25_Witness ==
    /\ loading
    /\ runs = 2
    /\ validateCredentials(credentials).valid
    /\ Settled(mfa.promise)
    /\ pitr.pc = "backups"
    /\ ~RunButtonEnabled
    /\ Len(evidence) = 3

\* C26: every run that is triggered settles and gives the Run Checks button
\* back.  Provided the remote calls of the evaluators return or fail, loading
\* is eventually false again after it was set; a run whose setup throws
\* leaves loading false as well; and loading is never true without a run in
\* flight.
SetupFailureMessages ==
    { "Failed to run checks: " \o ClientError.message,
      "Failed to run checks: " \o MissingClientCredentials.message }

C26_RunsSettle ==
    /\ [](loading => RunInFlight)
    /\ [](error \in SetupFailureMessages => ~loading)
    /\ loading ~> ~loading

C26_Witness ==
    /\ ~loading
    /\ runs = 1
    /\ Len(evidence) = 3
    /\ results.pitr.status = "pass"
    /\ error = "Failed to run checks: Invalid supabaseUrl: Must be a valid HTTP or HTTPS URL."
    /\ credentials.url = OddUrl
    /\ RunButtonEnabled

\* C27: a confirmed clear during a run is not undone by the run.  The step
\* that empties the log while a run is in flight leaves the run as it is; the
\* log then stays empty until the run completes; and the completion of a run
\* that finds the log empty leaves exactly the three entries of that run, for
\* MFA, RLS and PITR, with the run's timestamp, statuses and messages.
EntryOf(entry, check, result, timestamp) ==
    /\ entry.check = check
    /\ entry.timestamp = timestamp
    /\ entry.status = result.status
    /\ entry.details = IF "message" \in DOMAIN result THEN result.message ELSE ""

C27_ClearDuringRunStays ==
    [][/\ (loading /\ evidence # <<>> /\ evidence' = <<>>) =>
             UNCHANGED <<loading, results, mfa, rls, pitr, apiCalls, runs, clock>>
       /\ (loading /\ loading' /\ evidence = <<>>) => evidence' = <<>>
       /\ (loading /\ ~loading' /\ evidence = <<>>) =>
             /\ Len(evidence') = 3
             /\ EntryOf(evidence'[1], "MFA", results'.mfa, toISOString(clock))
             /\ EntryOf(evidence'[2], "RLS", results'.rls, toISOString(clock))
             /\ EntryOf(evidence'[3], "PITR", results'.pitr, toISOString(clock))]_vars

C27_Witness ==
    /\ ~loading
    /\ runs = 2
    /\ clock = 2
    /\ Len(evidence) = 3
    /\ evidence[1].timestamp = toISOString(2)
    /\ evidence[2].timestamp = toISOString(2)
    /\ evidence[3].timestamp = toISOString(2)
    /\ results.mfa.status = "error"
    /\ evidence[1].status = "error"
    /\ evidence[3].status = "pass"

\* C28: results and evidence agree.  Whenever the Evidence Log is not empty,
\* its last three entries are for MFA, RLS and PITR in this order, and each
\* has the status of the corresponding result of the Results Record and, as
\* details, that result's message; this holds from the completion of a run
\* until the log is cleared, across edits, failed triggers and later runs in
\* flight.
AgreesWith(entry, check, result) ==
    /\ entry.check = check
    /\ entry.status = result.status
    /\ "message" \in DOMAIN result
    /\ entry.details = result.message

C28_ResultsAndEvidenceAgree ==
    evidence # <<>>
    => LET n == Len(evidence)
       IN  /\ n >= 3
           /\ AgreesWith(evidence[n - 2], "MFA", results.mfa)
           /\ AgreesWith(evidence[n - 1], "RLS", results.rls)
           /\ AgreesWith(evidence[n], "PITR", results.pitr)

C28_Witness ==
    /\ loading
    /\ runs = 2
    /\ Len(evidence) = 3
    /\ Settled(pitr.promise)
    /\ mfa.promise.state = "rejected"
    /\ results.mfa.status = "fail"
    /\ evidence[1].details = "MFA is enabled for 1 out of 2 users"
    /\ evidence[2].details = "No public tables found or RLS configuration not needed yet."
    /\ evidence[3].details = "Point in Time Recovery is enabled"
    /\ error = ""

\* C29: a run that passes validation but whose setup throws (the client
\* cannot be built) changes nothing but the error message.  The step that
\* shows "Failed to run checks: ..." starts from a page without a run in
\* flight and with credentials that pass validation, and leaves the Results
\* Record, the Evidence Log, the evaluators, the remote calls and the run
\* counter as they were, with loading false; while the message shows, no
\* evaluator is running.
C29_SetupFailureChangesNothing ==
    /\ [](error \in SetupFailureMessages =>
             /\ ~loading
             /\ mfa = IdleCheck /\ rls = IdleCheck /\ pitr = IdlePitr
             /\ apiCalls = <<>>)
    /\ [][(error' \in SetupFailureMessages /\ error' # error) =>
             /\ ~loading
             /\ ~FailsValidation(credentials)
             /\ UNCHANGED <<credentials, loading, results, evidence, mfa, rls, pitr,
                            apiCalls, runs, clock>>]_vars

C29_Witness ==
    /\ ~loading
    /\ runs = 2
    /\ Len(evidence) = 6
    /\ results.mfa.status = "error"
    /\ results.pitr.status = "pass"
    /\ credentials.url = OddUrl
    /\ ~FailsValidation(credentials)
    /\ error = "Failed to run checks: Invalid supabaseUrl: Must be a valid HTTP or HTTPS URL."
    /\ mfa = IdleCheck
    /\ apiCalls = <<>>

\* C30: in a run started from the page the "Invalid Supabase URL" result of
\* checkPITR cannot occur.  Validation fails with the Project URL message for
\* every url without a match of https://<label>.supabase.co, so every
\* invocation of checkPITR the page starts has a url with a match and a
\* project reference, and the message of the invalid-URL result is never the
\* result of the invocation, in the Results Record or in the Evidence Log.
InvalidUrlMessage == "Invalid Supabase URL. Unable to extract project reference."

InvalidProjectUrlMessage ==
    "Invalid Project URL. Must be a Supabase URL (e.g., https://project.supabase.co)"

C30_InvalidUrlResultUnreachable ==
    /\ ~HasProjectPattern(credentials.url) =>
          /\ ~validateCredentials(credentials).valid
          /\ validateCredentials(credentials).error = InvalidProjectUrlMessage
    /\ pitr.promise # NoPromise =>
          /\ HasProjectPattern(pitr.credentials.url)
          /\ pitr.projectRef # <<>>
    /\ pitr.promise.state = "fulfilled" => pitr.promise.value.message # InvalidUrlMessage
    /\ "message" \in DOMAIN results.pitr => results.pitr.message # InvalidUrlMessage
    /\ \A i \in 1..Len(evidence) : evidence[i].details # InvalidUrlMessage

C30_Witness ==
    /\ ~loading
    /\ credentials.url = HttpUrl
    /\ credentials.serviceRoleKey = ValidServiceRoleKey
    /\ credentials.managementApiKey = ValidManagementApiKey
    /\ Includes(credentials.url, <<"supabase", ".", "co">>)
    /\ error = InvalidProjectUrlMessage
    /\ runs = 1
    /\ results.pitr.status = "pass"
    /\ pitr = IdlePitr

====
